---- MODULE Spec2Model ----
(***************************************************************************)
(* Label derivation and dev-split generation of data_adapter/data_object.py *)
(* (BaseDataset and its Semeval subclasses).                                *)
(*                                                                          *)
(* Python values are represented as follows:                                *)
(*   str            a sequence of one-character strings                     *)
(*   None partition the record None; a present list l is Some(l)            *)
(*   set            a TLA+ set                                              *)
(*   float size     a pair <<numerator, denominator>>                       *)
(***************************************************************************)
EXTENDS Integers, Sequences, FiniteSets, TLC

(***************************************************************************)
(* Bounds of the model.                                                     *)
(***************************************************************************)
MaxTerms == 3        \* aspect terms per sentence in the reconciliation inputs
MaxTextLen == 3      \* characters per sentence text in the normalisation inputs
MaxTrain == 3        \* train documents in the split inputs
RngMod == 3          \* number of distinct states of a random generator
MaxCtxLen == 2       \* characters of left context in the token-placeholder inputs
MaxOpinions == 2     \* opinion elements per sentence or review in the XML inputs
MaxCatLen == 3       \* characters per category in the entity inputs
MaxCsvLines == 2     \* lines per csv file
MaxCsvLen == 2       \* characters per line of a csv file

(***************************************************************************)
(* Strings.                                                                 *)
(***************************************************************************)
\* the characters used, in code-point order
AsciiOrder ==
    <<"\n", "\r", " ", "#", "A", "F", "G", "P", "Q", "S",
      "a", "b", "c", "e", "f", "g", "i", "l", "n", "o", "p", "r", "s", "t", "u", "v">>

Ord(c) == CHOOSE i \in 1..Len(AsciiOrder) : AsciiOrder[i] = c

\* Python's str.__lt__: code-point lexicographic order, a proper prefix is smaller
RECURSIVE StrLess(_, _)
StrLess(a, b) ==
    IF b = <<>> THEN FALSE
    ELSE IF a = <<>> THEN TRUE
    ELSE IF Head(a) # Head(b) THEN Ord(Head(a)) < Ord(Head(b))
    ELSE StrLess(Tail(a), Tail(b))

positive == <<"p", "o", "s", "i", "t", "i", "v", "e">>
negative == <<"n", "e", "g", "a", "t", "i", "v", "e">>
neutral == <<"n", "e", "u", "t", "r", "a", "l">>
conflict == <<"c", "o", "n", "f", "l", "i", "c", "t">>

\* the category attribute of an AspectTerm built without one (category=None)
NoneStr == <<"None">>

None == [none |-> TRUE]
Some(l) == [items |-> l]

DataTypes == <<"train", "dev", "test">>

MapSeq(f(_), s) == [i \in 1..Len(s) |-> f(s[i])]

RECURSIVE Concat(_)
Concat(ss) == IF ss = <<>> THEN <<>> ELSE Head(ss) \o Concat(Tail(ss))

Range(s) == {s[i] : i \in 1..Len(s)}

(***************************************************************************)
(* list(s) followed by list.sort(): the elements of the set s in strictly  *)
(* ascending str order.                                                     *)
(***************************************************************************)
RECURSIVE SortDescending(_)
SortDescending(s) ==
    IF s = {} THEN <<>>
    ELSE LET m == CHOOSE x \in s : \A y \in s \ {x} : StrLess(y, x)
         IN  <<m>> \o SortDescending(s \ {m})

RECURSIVE sort(_)
sort(s) ==
    IF s = {} THEN <<>>
    ELSE LET m == CHOOSE x \in s : \A y \in s \ {x} : StrLess(x, y)
         IN  <<m>> \o sort(s \ {m})

(***************************************************************************)
(* re.sub('[\r\n]', repl, text) and re.sub('[\r\n]+', repl, text).          *)
(***************************************************************************)
IsCrLf(c) == c \in {"\r", "\n"}

RECURSIVE re_sub_crlf(_, _)
re_sub_crlf(repl, text) ==
    IF text = <<>> THEN <<>>
    ELSE IF IsCrLf(Head(text)) THEN repl \o re_sub_crlf(repl, Tail(text))
    ELSE <<Head(text)>> \o re_sub_crlf(repl, Tail(text))

\* the pattern without its +: every character replaced on its own
re_sub_each(repl, text) == re_sub_crlf(repl, text)

RECURSIVE SkipCrLf(_)
SkipCrLf(text) ==
    IF text # <<>> /\ IsCrLf(Head(text)) THEN SkipCrLf(Tail(text)) ELSE text

RECURSIVE re_sub_crlf_plus(_, _)
re_sub_crlf_plus(repl, text) ==
    IF text = <<>> THEN <<>>
    ELSE IF IsCrLf(Head(text)) THEN repl \o re_sub_crlf_plus(repl, SkipCrLf(text))
    ELSE <<Head(text)>> \o re_sub_crlf_plus(repl, Tail(text))

(***************************************************************************)
(* sklearn.model_selection.train_test_split as the handlers call it.       *)
(* A generator is a state in 0..RngMod-1; g is the state of the process-    *)
(* wide generator that is used when no random_state is passed.              *)
(***************************************************************************)
NoSeed == -1

RECURSIVE Factorial(_)
Factorial(n) == IF n <= 1 THEN 1 ELSE n * Factorial(n - 1)

RemoveAt(s, i) == SubSeq(s, 1, i - 1) \o SubSeq(s, i + 1, Len(s))

\* the k-th arrangement of items
RECURSIVE Arrange(_, _)
Arrange(items, k) ==
    IF items = <<>> THEN <<>>
    ELSE LET f == Factorial(Len(items) - 1)
             i == ((k \div f) % Len(items)) + 1
         IN  <<items[i]>> \o Arrange(RemoveAt(items, i), k % f)

\* rng.permutation(n) of a generator in state st
permutation(n, st) == Arrange([i \in 1..n |-> i], st)

\* RandomState(seed)
RandomState(seed) == seed % RngMod

\* ceil(test_size * n) and floor((1 - test_size) * n)
NTest(n, size) == (n * size[1] + size[2] - 1) \div size[2]
NTrain(n, size) == (n * (size[2] - size[1])) \div size[2]

\* a split whose train part starts again at the head of the permutation
SplitFromHead(arr, size, st) ==
    LET n == Len(arr)
        p == permutation(n, st)
    IN  [train |-> [i \in 1..NTrain(n, size) |-> arr[p[i]]],
         test  |-> [i \in 1..NTest(n, size) |-> arr[p[i]]]]

Split(arr, size, st) ==
    LET n == Len(arr)
        p == permutation(n, st)
    IN  [train |-> [i \in 1..NTrain(n, size) |-> arr[p[NTest(n, size) + i]]],
         test  |-> [i \in 1..NTest(n, size) |-> arr[p[i]]]]

\* a train_test_split that draws from the process-wide generator even when
\* a random_state is passed
train_test_split_global(arr, test_size, random_state, g) ==
    IF arr = None THEN [raised |-> "TypeError", g |-> g]
    ELSE IF test_size[1] = 0 \/ NTrain(Len(arr.items), test_size) = 0
    THEN [raised |-> "ValueError", g |-> g]
    ELSE [raised |-> "", g |-> (g + 1) % RngMod,
          train |-> Split(arr.items, test_size, g).train,
          test  |-> Split(arr.items, test_size, g).test]

train_test_split(arr, test_size, random_state, g) ==
    IF arr = None THEN [raised |-> "TypeError", g |-> g]
    ELSE IF test_size[1] = 0 \/ NTrain(Len(arr.items), test_size) = 0
    THEN [raised |-> "ValueError", g |-> g]
    ELSE LET st == IF random_state = NoSeed THEN g ELSE RandomState(random_state)
         IN  [raised |-> "",
              g |-> IF random_state = NoSeed THEN (g + 1) % RngMod ELSE g,
              train |-> Split(arr.items, test_size, st).train,
              test  |-> Split(arr.items, test_size, st).test]

(***************************************************************************)
(* BaseDataset.generate_dev_data(result, dev_size, random_state)            *)
(***************************************************************************)
DefaultRandomState == 1234

\* a generate_dev_data that carves a dev partition whether there is one or
\* not
generate_dev_data_anyway(result, dev_size, random_state, g) ==
    IF dev_size[1] # 0
    THEN LET s == train_test_split(result.train, dev_size, random_state, g)
         IN  IF s.raised # ""
             THEN [raised |-> s.raised, g |-> s.g, result |-> result]
             ELSE [raised |-> "", g |-> s.g,
                   result |-> [result EXCEPT !.train = Some(s.train), !.dev = Some(s.test)]]
    ELSE [raised |-> "", g |-> g, result |-> [result EXCEPT !.dev = result.test]]

\* a generate_dev_data whose zero-size fallback takes dev from train
generate_dev_data_from_train(result, dev_size, random_state, g) ==
    IF result.dev = None
    THEN IF dev_size[1] # 0
         THEN LET s == train_test_split(result.train, dev_size, random_state, g)
              IN  IF s.raised # ""
                  THEN [raised |-> s.raised, g |-> s.g, result |-> result]
                  ELSE [raised |-> "", g |-> s.g,
                        result |-> [result EXCEPT !.train = Some(s.train),
                                                  !.dev = Some(s.test)]]
         ELSE [raised |-> "", g |-> g, result |-> [result EXCEPT !.dev = result.train]]
    ELSE [raised |-> "", g |-> g, result |-> result]

generate_dev_data(result, dev_size, random_state, g) ==
    IF result.dev = None
    THEN IF dev_size[1] # 0
         THEN LET s == train_test_split(result.train, dev_size, random_state, g)
              IN  IF s.raised # ""
                  THEN [raised |-> s.raised, g |-> s.g, result |-> result]
                  ELSE [raised |-> "", g |-> s.g,
                        result |-> [result EXCEPT !.train = Some(s.train),
                                                  !.dev = Some(s.test)]]
         ELSE [raised |-> "", g |-> g, result |-> [result EXCEPT !.dev = result.test]]
    ELSE [raised |-> "", g |-> g, result |-> result]

(***************************************************************************)
(* BaseDataset.get_data_type_and_data_dict(): a dict built at every call    *)
(* from the three attributes of the object.  own tells whether a write to   *)
(* the dict is a write to the object.                                       *)
(***************************************************************************)
\* a method that hands out the store of the object itself
get_data_type_and_data_dict_own(self) == [own |-> TRUE, dict |-> self]

get_data_type_and_data_dict(self) ==
    [own |-> FALSE, dict |-> [train |-> self.train, dev |-> self.dev, test |-> self.test]]

(***************************************************************************)
(* Iteration over the canonical data.                                       *)
(***************************************************************************)
AbsaSentencesOf(document) == document.absa_sentences

\* for document in data: for sentence in document.absa_sentences
Sentences(docs) == Concat(MapSeq(AbsaSentencesOf, docs))

\* the sentences of all present partitions, in train, dev, test order
AllSentences(data) ==
    Concat([i \in 1..3 |-> IF data[DataTypes[i]] = None THEN <<>>
                           ELSE Sentences(data[DataTypes[i]].items)])

AllTerms(data) == Concat([i \in 1..Len(AllSentences(data)) |-> AllSentences(data)[i].aspect_terms])

AllCategories(data) ==
    Concat([i \in 1..Len(AllSentences(data)) |-> AllSentences(data)[i].aspect_categories])

NonEmptyLabel(sample) == sample.label # <<>>

LabelOfSample(sample) == sample.label

(***************************************************************************)
(* BaseDataset.generate_atsa_data(test_size).  NoSize is test_size=None.    *)
(***************************************************************************)
NoSize == <<0, 0>>

\* a sample whose label lists the aspect terms last to first
AtsaSampleReversed(sentence) ==
    [content |-> re_sub_crlf(<<>>, sentence.text),
     label |-> [i \in 1..Len(sentence.aspect_terms) |->
                   sentence.aspect_terms[Len(sentence.aspect_terms) + 1 - i]]]

AtsaSample(sentence) ==
    [content |-> re_sub_crlf(<<>>, sentence.text), label |-> sentence.aspect_terms]

\* generate_atsa_data with the len(label) == 0 check of the category tasks
AtsaSamplesDropEmpty(docs) == SelectSeq(MapSeq(AtsaSample, Sentences(docs)), NonEmptyLabel)

AtsaSamples(docs) == MapSeq(AtsaSample, Sentences(docs))

TermPolarity(aspect_term) == aspect_term.polarity

EmptyResult == [train |-> None, dev |-> None, test |-> None]

generate_atsa_data(data, test_size, g) ==
    LET result == [dt \in DOMAIN EmptyResult |->
                      IF data[dt] = None THEN None ELSE Some(AtsaSamples(data[dt].items))]
        distinct_polarities == Range(MapSeq(TermPolarity, AllTerms(data)))
    IN  IF result.dev = None /\ test_size # NoSize
        THEN LET s == train_test_split(result.train, test_size, NoSeed, g)
             IN  IF s.raised # ""
                 THEN [raised |-> s.raised, g |-> s.g]
                 ELSE [raised |-> "", g |-> s.g,
                       result |-> [result EXCEPT !.train = Some(s.train), !.dev = Some(s.test)],
                       categories |-> None,
                       polarities |-> Some(sort(distinct_polarities))]
        ELSE [raised |-> "", g |-> g, result |-> result, categories |-> None,
              polarities |-> Some(sort(distinct_polarities))]

(***************************************************************************)
(* Semeval2014Task4Rest.generate_acd_and_sc_data(dev_size)                  *)
(***************************************************************************)
CategoryPair(aspect_category) == <<aspect_category.category, aspect_category.polarity>>

Acsc2014Sample(sentence) ==
    [content |-> re_sub_crlf(<<" ">>, sentence.text),
     label |-> MapSeq(CategoryPair, sentence.aspect_categories)]

\* what a derivation returns once its samples and label sets are built and
\* generate_dev_data has run
Finish(result, distinct_categories, distinct_polarities, dev_size, g) ==
    LET d == generate_dev_data(result, dev_size, DefaultRandomState, g)
    IN  IF d.raised # ""
        THEN [raised |-> d.raised, g |-> d.g]
        ELSE [raised |-> "", g |-> d.g, result |-> d.result,
              categories |-> Some(sort(distinct_categories)),
              polarities |-> Some(sort(distinct_polarities))]

Semeval2014Task4Rest_generate_acd_and_sc_data(data, dev_size, g) ==
    LET result == [dt \in DOMAIN EmptyResult |->
                      IF data[dt] = None THEN None
                      ELSE Some(MapSeq(Acsc2014Sample, Sentences(data[dt].items)))]
        pairs == MapSeq(CategoryPair, AllCategories(data))
    IN  Finish(result, {q[1] : q \in Range(pairs)}, {q[2] : q \in Range(pairs)}, dev_size, g)

(***************************************************************************)
(* Semeval2016Task5Sub2.generate_acd_and_sc_data(dev_size, random_state):   *)
(* one sample per document, then the category distribution of every entry   *)
(* of result is logged.                                                     *)
(***************************************************************************)
Sub2AcscSample(document) ==
    [content |-> re_sub_crlf(<<" ">>, document.text),
     label |-> MapSeq(CategoryPair, document.aspect_categories)]

DocumentsOf(data) ==
    Concat([i \in 1..3 |-> IF data[DataTypes[i]] = None THEN <<>> ELSE data[DataTypes[i]].items])

Semeval2016Task5Sub2_generate_acd_and_sc_data(data, dev_size, g) ==
    LET \* for sample in data: of an entry that is None
        Logged(r) ==
            IF r.raised = "" /\ \E dt \in DOMAIN r.result : r.result[dt] = None
            THEN [raised |-> "TypeError", g |-> r.g]
            ELSE r
        Pairs(result, pairs) ==
            Logged(Finish(result, {q[1] : q \in Range(pairs)}, {q[2] : q \in Range(pairs)},
                          dev_size, g))
    IN  Pairs([dt \in DOMAIN EmptyResult |->
                  IF data[dt] = None THEN None
                  ELSE Some(MapSeq(Sub2AcscSample, data[dt].items))],
              Concat(MapSeq(LabelOfSample, MapSeq(Sub2AcscSample, DocumentsOf(data)))))

(***************************************************************************)
(* Semeval2015Task12.generate_acd_and_sc_data(dev_size)                     *)
(***************************************************************************)
\* the categories in the order of their last occurrence
RECURSIVE KeysByLast(_)
KeysByLast(aspect_terms) ==
    IF aspect_terms = <<>> THEN <<>>
    ELSE IF \E i \in 2..Len(aspect_terms) : aspect_terms[i].category = Head(aspect_terms).category
    THEN KeysByLast(Tail(aspect_terms))
    ELSE <<Head(aspect_terms).category>> \o KeysByLast(Tail(aspect_terms))

\* the keys of aspect_categories_temp in insertion order
RECURSIVE Keys(_)
Keys(aspect_terms) ==
    IF aspect_terms = <<>> THEN <<>>
    ELSE LET front == SubSeq(aspect_terms, 1, Len(aspect_terms) - 1)
             last == aspect_terms[Len(aspect_terms)]
         IN  IF \E i \in 1..Len(front) : front[i].category = last.category
             THEN Keys(front)
             ELSE Keys(front) \o <<last.category>>

\* buckets that keep only the first polarity seen for a category
VotesFirst(aspect_terms, category) ==
    {aspect_terms[i].polarity :
        i \in {j \in 1..Len(aspect_terms) :
                  /\ aspect_terms[j].category = category
                  /\ \A k \in 1..(j - 1) : aspect_terms[k].category # category}}

\* aspect_categories_temp[category]
Votes(aspect_terms, category) ==
    {aspect_terms[i].polarity : i \in {j \in 1..Len(aspect_terms) : aspect_terms[j].category = category}}

\* a reconciliation that tests positive/neutral before conflict
ReconcileNeutralFirst(polarities) ==
    IF Cardinality(polarities) = 1 THEN CHOOSE x \in polarities : TRUE
    ELSE IF positive \in polarities /\ neutral \in polarities THEN positive
    ELSE IF (positive \in polarities /\ negative \in polarities) \/ conflict \in polarities
    THEN conflict
    ELSE negative

\* the polarity appended to label for one bucket
Reconcile(polarities) ==
    IF Cardinality(polarities) = 1 THEN CHOOSE x \in polarities : TRUE
    ELSE IF (positive \in polarities /\ negative \in polarities) \/ conflict \in polarities
    THEN conflict
    ELSE IF positive \in polarities /\ neutral \in polarities THEN positive
    ELSE negative

\* the polarity added to distinct_polarities for one bucket: in the
\* single-vote branch it is the variable polarity, which still holds the
\* polarity of the sentence's last aspect term
Recorded(aspect_terms, polarities) ==
    IF Cardinality(polarities) = 1 THEN aspect_terms[Len(aspect_terms)].polarity
    ELSE Reconcile(polarities)

Acsc2015Label(sentence) ==
    LET keys == Keys(sentence.aspect_terms)
    IN  [i \in 1..Len(keys) |-> <<keys[i], Reconcile(Votes(sentence.aspect_terms, keys[i]))>>]

Acsc2015Sample(sentence) ==
    [content |-> re_sub_crlf_plus(<<" ">>, sentence.text), label |-> Acsc2015Label(sentence)]

Acsc2015Recorded(sentence) ==
    {Recorded(sentence.aspect_terms, Votes(sentence.aspect_terms, c)) :
        c \in Range(Keys(sentence.aspect_terms))}

Semeval2015Task12_generate_acd_and_sc_data(data, dev_size, g) ==
    LET result == [dt \in DOMAIN EmptyResult |->
                      IF data[dt] = None THEN None
                      ELSE Some(SelectSeq(MapSeq(Acsc2015Sample, Sentences(data[dt].items)),
                                          NonEmptyLabel))]
        all == AllSentences(data)
    IN  Finish(result,
               UNION {Range(Keys(all[i].aspect_terms)) : i \in 1..Len(all)},
               UNION {Acsc2015Recorded(all[i]) : i \in 1..Len(all)},
               dev_size, g)

(***************************************************************************)
(* Semeval2016Task5ChCameSub1.generate_acd_and_sc_data(dev_size)            *)
(***************************************************************************)
ChCameSample(sentence) ==
    [content |-> re_sub_crlf_plus(<<" ">>, sentence.text),
     label |-> MapSeq(CategoryPair, sentence.aspect_categories)]

Semeval2016Task5ChCameSub1_generate_acd_and_sc_data(data, dev_size, g) ==
    LET result == [dt \in DOMAIN EmptyResult |->
                      IF data[dt] = None THEN None
                      ELSE Some(SelectSeq(MapSeq(ChCameSample, Sentences(data[dt].items)),
                                          NonEmptyLabel))]
        pairs == MapSeq(CategoryPair, AllCategories(data))
    IN  Finish(result, {q[1] : q \in Range(pairs)}, {q[2] : q \in Range(pairs)}, dev_size, g)

(***************************************************************************)
(* The detection tasks.  Each ends with the same unseeded split.            *)
(***************************************************************************)
FinishDetection(result, distinct_categories, test_size, g) ==
    IF result.dev = None
    THEN LET s == train_test_split(result.train, test_size, NoSeed, g)
         IN  IF s.raised # ""
             THEN [raised |-> s.raised, g |-> s.g]
             ELSE [raised |-> "", g |-> s.g,
                   result |-> [result EXCEPT !.train = Some(s.train), !.dev = Some(s.test)],
                   categories |-> Some(sort(distinct_categories)),
                   polarities |-> None]
    ELSE [raised |-> "", g |-> g, result |-> result,
          categories |-> Some(sort(distinct_categories)), polarities |-> None]

CategoryOf(x) == x.category

\* Semeval2016Task5Sub1.generate_aspect_category_detection_data: the label
\* is the list of the sentence's aspect categories
Sub1DetectionSample(sentence) ==
    [content |-> re_sub_crlf(<<" ">>, sentence.text),
     label |-> MapSeq(CategoryOf, sentence.aspect_categories)]

Semeval2016Task5Sub1_generate_aspect_category_detection_data(data, test_size, g) ==
    LET result == [dt \in DOMAIN EmptyResult |->
                      IF data[dt] = None THEN None
                      ELSE Some(MapSeq(Sub1DetectionSample, Sentences(data[dt].items)))]
    IN  FinishDetection(result, Range(MapSeq(CategoryOf, AllCategories(data))), test_size, g)

\* Semeval2016Task5RestSub1.generate_aspect_category_detection_data: the
\* label is list(label) of a set of the terms' categories; the list is kept
\* as the list of Keys, one of the orders list() can produce
RestSub1DetectionSample(sentence) ==
    [content |-> re_sub_crlf(<<" ">>, sentence.text), label |-> Keys(sentence.aspect_terms)]

Semeval2016Task5RestSub1_generate_aspect_category_detection_data(data, test_size, g) ==
    LET result == [dt \in DOMAIN EmptyResult |->
                      IF data[dt] = None THEN None
                      ELSE Some(MapSeq(RestSub1DetectionSample, Sentences(data[dt].items)))]
    IN  FinishDetection(result, Range(MapSeq(CategoryOf, AllTerms(data))), test_size, g)

\* category.rsplit('#', 1)[0]: what stands before the last separator
RECURSIVE SplitHashLast(_)
SplitHashLast(category) ==
    IF category = <<>> THEN <<>>
    ELSE IF \E i \in 1..Len(category) : category[i] = "#"
    THEN IF category[Len(category)] = "#" THEN SubSeq(category, 1, Len(category) - 1)
         ELSE SplitHashLast(SubSeq(category, 1, Len(category) - 1))
    ELSE category

\* category.split('#')[0]
RECURSIVE SplitHashFirst(_)
SplitHashFirst(category) ==
    IF category = <<>> \/ Head(category) = "#" THEN <<>>
    ELSE <<Head(category)>> \o SplitHashFirst(Tail(category))

EntityTerm(aspect_term) == [aspect_term EXCEPT !.category = SplitHashFirst(aspect_term.category)]

EntitySample(sentence) ==
    [content |-> re_sub_crlf(<<" ">>, sentence.text),
     label |-> Keys(MapSeq(EntityTerm, sentence.aspect_terms))]

Semeval2016Task5RestSub1_generate_entity_detection_data(data, test_size, g) ==
    LET result == [dt \in DOMAIN EmptyResult |->
                      IF data[dt] = None THEN None
                      ELSE Some(MapSeq(EntitySample, Sentences(data[dt].items)))]
    IN  FinishDetection(result,
                        Range(MapSeq(CategoryOf, MapSeq(EntityTerm, AllTerms(data)))),
                        test_size, g)

(***************************************************************************)
(* Canonical data.                                                          *)
(***************************************************************************)
AspectTerm(term, polarity, from_index, to_index, category) ==
    [term |-> term, polarity |-> polarity, from_index |-> from_index,
     to_index |-> to_index, category |-> category]

AspectCategory(category, polarity) == [category |-> category, polarity |-> polarity]

\* an optional value is None or Some(value); a sentence's aspect_terms and
\* aspect_categories are the bare list where the adapter builds a list
AbsaSentence(text, polarity, aspect_categories, aspect_terms, sample_id, start_index_in_doc) ==
    [text |-> text, polarity |-> polarity, aspect_categories |-> aspect_categories,
     aspect_terms |-> aspect_terms, sample_id |-> sample_id,
     start_index_in_doc |-> start_index_in_doc]

AbsaDocument(text, polarity, aspect_categories, aspect_terms, absa_sentences, sample_id) ==
    [text |-> text, polarity |-> polarity, aspect_categories |-> aspect_categories,
     aspect_terms |-> aspect_terms, absa_sentences |-> absa_sentences,
     sample_id |-> sample_id]

TextOf(x) == x.text

\* the document of Semeval2015Task12._load_data_by_filepath:
\* AbsaDocument(''.join(doc_texts), None, None, None, sentences)
Review(sentences) ==
    AbsaDocument(Concat(MapSeq(TextOf, sentences)), None, None, None, sentences, <<>>)

Classes ==
    {"Semeval2014Task4Rest", "Semeval2015Task12Rest",
     "Semeval2016Task5ChCameSub1", "Semeval2016Task5RestSub1"}

\* the classes whose corpus gives every opinion a target attribute
TermClasses == {"Semeval2015Task12Rest", "Semeval2016Task5RestSub1"}

Polarities == {positive, negative, neutral, conflict}
FoodQuality == <<"F", "#", "Q">>
FoodPrices == <<"F", "#", "P">>
ServiceGeneral == <<"S", "#", "G">>
Ambience == <<"A">>

NoCategory(aspect_term) == [aspect_term EXCEPT !.category = NoneStr]
AsCategory(aspect_term) == AspectCategory(aspect_term.category, aspect_term.polarity)

\* the sentence an adapter of class c builds from opinions that name a text,
\* and for each opinion a target span, a category and a polarity:
\*   Semeval2014Task4 reads aspectTerm elements (no category) and
\*   aspectCategory elements; Semeval2015Task12 turns an opinion with a
\*   target into an AspectTerm and one without into an AspectCategory
SentenceOf(c, text, opinions) ==
    IF c \in TermClasses THEN AbsaSentence(text, None, <<>>, opinions, <<>>, -1)
    ELSE IF c = "Semeval2014Task4Rest"
    THEN AbsaSentence(text, None, MapSeq(AsCategory, opinions), MapSeq(NoCategory, opinions),
                      <<>>, -1)
    ELSE AbsaSentence(text, None, MapSeq(AsCategory, opinions), <<>>, <<>>, -1)

(***************************************************************************)
(* str methods the adapters use.                                            *)
(***************************************************************************)
\* str.lower() on one character
LowerChar(c) ==
    CASE c = "A" -> "a" [] c = "B" -> "b" [] c = "F" -> "f" [] c = "G" -> "g"
      [] c = "P" -> "p" [] c = "Q" -> "q" [] c = "S" -> "s" [] c = "T" -> "t"
      [] c = "Y" -> "y" [] OTHER -> c

lower(s) == [i \in 1..Len(s) |-> LowerChar(s[i])]

IsSpace(c) == c \in {" ", "\t", "\n", "\r"}

RECURSIVE lstrip(_)
lstrip(s) == IF s # <<>> /\ IsSpace(Head(s)) THEN lstrip(Tail(s)) ELSE s

RECURSIVE rstrip(_)
rstrip(s) ==
    IF s # <<>> /\ IsSpace(s[Len(s)]) THEN rstrip(SubSeq(s, 1, Len(s) - 1)) ELSE s

strip(s) == rstrip(lstrip(s))

\* s[from_index:to_index] for indices that are not negative
Slice(s, from_index, to_index) ==
    SubSeq(s, from_index + 1, IF to_index < Len(s) THEN to_index ELSE Len(s))

StartsWith(s, prefix) == Len(prefix) <= Len(s) /\ SubSeq(s, 1, Len(prefix)) = prefix

\* s.find(sub): the lowest index at which sub occurs in s, -1 if none
find(s, sub) ==
    IF \E i \in 0..Len(s) : StartsWith(SubSeq(s, i + 1, Len(s)), sub)
    THEN CHOOSE i \in 0..Len(s) :
            /\ StartsWith(SubSeq(s, i + 1, Len(s)), sub)
            /\ \A j \in 0..(i - 1) : ~StartsWith(SubSeq(s, j + 1, Len(s)), sub)
    ELSE -1

\* sub in s
contains(s, sub) == find(s, sub) # -1

\* s.partition(sep)
partition(s, sep) ==
    LET At(i) == IF i = -1 THEN <<s, <<>>, <<>>>>
                 ELSE <<SubSeq(s, 1, i), sep, SubSeq(s, i + Len(sep) + 1, Len(s))>>
    IN  At(find(s, sep))

(***************************************************************************)
(* file_utils.read_all_lines and file_utils.read_all_content.  A locator    *)
(* is None or the resource found at that path: whether it exists, and what  *)
(* it holds.                                                                *)
(***************************************************************************)
File(content) == [exists |-> TRUE, content |-> content]
Missing == [exists |-> FALSE]

read_all_lines(filepath) ==
    IF filepath.exists THEN [raised |-> "", lines |-> filepath.content]
    ELSE [raised |-> "FileNotFoundError"]

read_all_content(filepath) ==
    IF filepath.exists THEN [raised |-> "", content |-> filepath.content]
    ELSE [raised |-> "FileNotFoundError"]

(***************************************************************************)
(* AsgcnData._load_data_by_filepath(train_filepath, test_filepath)          *)
(***************************************************************************)
Placeholder == <<"$", "T", "$">>

polarity_mapping ==
    [key \in {<<"-", "1">>, <<"0">>, <<"1">>} |->
        IF key = <<"-", "1">> THEN negative ELSE IF key = <<"0">> THEN neutral ELSE positive]

\* a from_index that forgets the blank between left context and term
AsgcnFromIndexNoBlank(text_left) == IF text_left # <<>> THEN Len(text_left) ELSE 0

AsgcnFromIndex(text_left) == IF text_left # <<>> THEN Len(text_left) + 1 ELSE 0

\* a text that joins term and right context without a blank
AsgcnTextNoBlank(text_left, aspect, text_right) ==
    LET text == IF text_left # <<>> THEN text_left \o <<" ">> \o aspect ELSE aspect
    IN  text \o text_right

AsgcnText(text_left, aspect, text_right) ==
    LET text == IF text_left # <<>> THEN text_left \o <<" ">> \o aspect ELSE aspect
    IN  IF text_right # <<>> THEN text \o <<" ">> \o text_right ELSE text

\* one pass of the loop over range(0, len(lines), 3), i counted from 1
AsgcnRecord(lines, i) ==
    IF i + 2 > Len(lines) THEN [raised |-> "IndexError"]
    ELSE LET Sentence(text, aspect, polarity, from_index, to_index) ==
                 \* logger.error('...' (...)) calls a str
                 IF Slice(text, from_index, to_index) # aspect THEN [raised |-> "TypeError"]
                 ELSE IF polarity \notin DOMAIN polarity_mapping THEN [raised |-> "KeyError"]
                 ELSE [raised |-> "",
                       sentence |-> AbsaSentence(text, None, None,
                                        <<AspectTerm(aspect, polarity_mapping[polarity],
                                                     from_index, to_index, NoneStr)>>,
                                        <<>>, -1)]
             Span(text_left, text_right, aspect, polarity, from_index) ==
                 Sentence(AsgcnText(text_left, aspect, text_right), aspect, polarity,
                          from_index, from_index + Len(aspect))
             Stripped(text_left, text_right, aspect, polarity) ==
                 Span(text_left, text_right, aspect, polarity, AsgcnFromIndex(text_left))
             Parts(parts) ==
                 Stripped(strip(lower(parts[1])), strip(lower(parts[3])),
                          strip(lower(lines[i + 1])), strip(lines[i + 2]))
         IN  Parts(partition(lines[i], Placeholder))

\* the sentences of lines[i:], or the first exception
RECURSIVE AsgcnSentences(_, _)
AsgcnSentences(lines, i) ==
    IF i > Len(lines) THEN [raised |-> "", sentences |-> <<>>]
    ELSE LET Records(r, rest) ==
                 IF r.raised # "" THEN [raised |-> r.raised]
                 ELSE IF rest.raised # "" THEN [raised |-> rest.raised]
                 ELSE [raised |-> "", sentences |-> <<r.sentence>> \o rest.sentences]
         IN  Records(AsgcnRecord(lines, i), AsgcnSentences(lines, i + 3))

\* AbsaDocument(sentence.text, None, None, None, [sentence])
SentenceDocument(sentence) ==
    AbsaDocument(sentence.text, None, None, None, <<sentence>>, <<>>)

AsgcnDocuments(filepath) ==
    LET Documents(r) ==
            IF r.raised # "" THEN [raised |-> r.raised]
            ELSE [raised |-> "", documents |-> MapSeq(SentenceDocument, r.sentences)]
        Lines(f) == IF f.raised # "" THEN [raised |-> f.raised]
                    ELSE Documents(AsgcnSentences(f.lines, 1))
    IN  Lines(read_all_lines(filepath))

AsgcnData_load_data_by_filepath(train_filepath, test_filepath) ==
    LET Result(train, test) ==
            IF train.raised # "" THEN [raised |-> train.raised]
            ELSE IF test.raised # "" THEN [raised |-> test.raised]
            ELSE [raised |-> "",
                  data |-> [train |-> Some(train.documents), dev |-> None,
                            test |-> Some(test.documents)]]
    IN  Result(AsgcnDocuments(train_filepath), AsgcnDocuments(test_filepath))

(***************************************************************************)
(* The element tree BeautifulSoup(content, "lxml") builds.  A Tag has a     *)
(* name, attributes and contents; a NavigableString is a node without name  *)
(* that holds a str.  The content of an XML resource is given as its tree.  *)
(***************************************************************************)
NoAttrs == <<>>

Tag(name, attrs, contents) ==
    [name |-> name, attrs |-> attrs, contents |-> contents, string |-> <<>>]

NavigableString(string) ==
    [name |-> "", attrs |-> NoAttrs, contents |-> <<>>, string |-> string]

\* tag.find_all(name): the descendants of that name, in document order
RECURSIVE find_all(_, _)
find_all(tag, name) ==
    Concat([i \in 1..Len(tag.contents) |->
               (IF tag.contents[i].name = name THEN <<tag.contents[i]>> ELSE <<>>)
                   \o find_all(tag.contents[i], name)])

\* tag.text: the strings below tag, concatenated
RECURSIVE get_text(_)
get_text(tag) ==
    IF tag.name = "" THEN tag.string
    ELSE Concat([i \in 1..Len(tag.contents) |-> get_text(tag.contents[i])])

\* key in tag.attrs
HasAttr(tag, key) == key \in DOMAIN tag.attrs

\* string in tag: Tag.__contains__ looks among the contents of the tag
InContents(tag, string) ==
    \E i \in 1..Len(tag.contents) :
        tag.contents[i].name = "" /\ tag.contents[i].string = string

\* tag.get(key, default)
get(tag, key, default) == IF HasAttr(tag, key) THEN tag.attrs[key] ELSE default

\* int(s) for a str s: blanks around an optional sign and decimal digits
Digits == <<"0", "1", "2", "3", "4", "5", "6", "7", "8", "9">>

IsDigit(c) == \E i \in 1..10 : Digits[i] = c

DigitValue(c) == (CHOOSE i \in 1..10 : Digits[i] = c) - 1

RECURSIVE Decimal(_)
Decimal(s) ==
    IF s = <<>> THEN 0 ELSE 10 * Decimal(SubSeq(s, 1, Len(s) - 1)) + DigitValue(s[Len(s)])

IsInt(s) ==
    LET AllDigits(body) == body # <<>> /\ \A i \in 1..Len(body) : IsDigit(body[i])
        Signed(t) == AllDigits(IF t # <<>> /\ Head(t) \in {"-", "+"} THEN Tail(t) ELSE t)
    IN  Signed(strip(s))

int(s) ==
    LET Signed(t) == IF Head(t) = "-" THEN 0 - Decimal(Tail(t))
                     ELSE IF Head(t) = "+" THEN Decimal(Tail(t))
                     ELSE Decimal(t)
    IN  Signed(strip(s))

\* the first exception among the results rs, else their values
Collect(rs) ==
    IF \E i \in 1..Len(rs) : rs[i].raised # ""
    THEN [raised |-> rs[CHOOSE i \in 1..Len(rs) :
                            /\ rs[i].raised # ""
                            /\ \A j \in 1..(i - 1) : rs[j].raised = ""].raised]
    ELSE [raised |-> "", values |-> [i \in 1..Len(rs) |-> rs[i].value]]

(***************************************************************************)
(* Semeval2014Task4._load_semeval_by_filepath(train, test, val)             *)
(***************************************************************************)
Semeval2014Term(aspect_term_tag) ==
    IF ~({"term", "polarity", "from", "to"} \subseteq DOMAIN aspect_term_tag.attrs)
    THEN [raised |-> "KeyError"]
    ELSE IF ~IsInt(aspect_term_tag.attrs["from"]) \/ ~IsInt(aspect_term_tag.attrs["to"])
    THEN [raised |-> "ValueError"]
    ELSE [raised |-> "",
          value |-> AspectTerm(aspect_term_tag.attrs["term"],
                               aspect_term_tag.attrs["polarity"],
                               int(aspect_term_tag.attrs["from"]),
                               int(aspect_term_tag.attrs["to"]), NoneStr)]

Semeval2014Category(aspect_category_tag) ==
    IF ~({"category", "polarity"} \subseteq DOMAIN aspect_category_tag.attrs)
    THEN [raised |-> "KeyError"]
    ELSE [raised |-> "",
          value |-> AspectCategory(aspect_category_tag.attrs["category"],
                                   aspect_category_tag.attrs["polarity"])]

Semeval2014Sentence(sentence_tag) ==
    LET Sentence(aspect_terms, aspect_categories) ==
            IF aspect_terms.raised # "" THEN [raised |-> aspect_terms.raised]
            ELSE IF aspect_categories.raised # "" THEN [raised |-> aspect_categories.raised]
            ELSE [raised |-> "",
                  value |-> AbsaSentence(get_text(sentence_tag), None, aspect_categories.values,
                                         aspect_terms.values, <<>>, -1)]
    IN  Sentence(Collect(MapSeq(Semeval2014Term, find_all(sentence_tag, "aspectterm"))),
                 Collect(MapSeq(Semeval2014Category, find_all(sentence_tag, "aspectcategory"))))

\* an adapter that gives a partition without locator an empty list
Semeval2014PartitionEmptyList(filepath) ==
    IF filepath = None THEN [raised |-> "", value |-> Some(<<>>)]
    ELSE LET Documents(r) ==
                 IF r.raised # "" THEN [raised |-> r.raised]
                 ELSE [raised |-> "", value |-> Some(MapSeq(SentenceDocument, r.values))]
             Content(f) ==
                 IF f.raised # "" THEN [raised |-> f.raised]
                 ELSE Documents(Collect(MapSeq(Semeval2014Sentence,
                                               find_all(f.content, "sentence"))))
         IN  Content(read_all_content(filepath))

\* data_type_and_datas[data_type] for one locator
Semeval2014Partition(filepath) ==
    IF filepath = None THEN [raised |-> "", value |-> None]
    ELSE LET Documents(r) ==
                 IF r.raised # "" THEN [raised |-> r.raised]
                 ELSE [raised |-> "", value |-> Some(MapSeq(SentenceDocument, r.values))]
             Content(f) ==
                 IF f.raised # "" THEN [raised |-> f.raised]
                 ELSE Documents(Collect(MapSeq(Semeval2014Sentence,
                                               find_all(f.content, "sentence"))))
         IN  Content(read_all_content(filepath))

\* the locators are read in the order train, test, dev
Semeval2014Task4_load_semeval_by_filepath(train_filepath, test_filepath, val_filepath) ==
    LET Result(r) ==
            IF r.raised # "" THEN [raised |-> r.raised]
            ELSE [raised |-> "",
                  data |-> [train |-> r.values[1], dev |-> r.values[3], test |-> r.values[2]]]
    IN  Result(Collect(<<Semeval2014Partition(train_filepath),
                         Semeval2014Partition(test_filepath),
                         Semeval2014Partition(val_filepath)>>))

(***************************************************************************)
(* Semeval2015Task12._load_data_by_filepath(train_filepath, test_filepath)  *)
(* and Semeval2015Task12Hotel._load_data()                                  *)
(***************************************************************************)
\* the opinions of a sentence or document: those with a target become
\* aspect terms, the others aspect categories; e is what the branch adds
OpinionTerm(opinion_tag) ==
    IF ~({"target", "from", "to"} \subseteq DOMAIN opinion_tag.attrs)
    THEN [raised |-> "KeyError"]
    ELSE IF ~IsInt(opinion_tag.attrs["from"]) \/ ~IsInt(opinion_tag.attrs["to"])
    THEN [raised |-> "ValueError"]
    ELSE [raised |-> "",
          value |-> [term |-> TRUE,
                     e |-> AspectTerm(opinion_tag.attrs["target"], opinion_tag.attrs["polarity"],
                                      int(opinion_tag.attrs["from"]),
                                      int(opinion_tag.attrs["to"]),
                                      opinion_tag.attrs["category"])]]

OpinionCategory(opinion_tag) ==
    [raised |-> "",
     value |-> [term |-> FALSE,
                e |-> AspectCategory(opinion_tag.attrs["category"],
                                     opinion_tag.attrs["polarity"])]]

Semeval2015Opinion(opinion_tag) ==
    IF ~({"category", "polarity"} \subseteq DOMAIN opinion_tag.attrs)
    THEN [raised |-> "KeyError"]
    ELSE IF HasAttr(opinion_tag, "target") THEN OpinionTerm(opinion_tag)
    ELSE OpinionCategory(opinion_tag)

IsTermEntry(x) == x.term
IsCategoryEntry(x) == ~x.term
EntryOf(x) == x.e

Semeval2015Sentence(sentence_tag) ==
    LET Sentence(opinions) ==
            IF opinions.raised # "" THEN [raised |-> opinions.raised]
            ELSE [raised |-> "",
                  value |-> AbsaSentence(get_text(sentence_tag), None,
                                MapSeq(EntryOf, SelectSeq(opinions.values, IsCategoryEntry)),
                                MapSeq(EntryOf, SelectSeq(opinions.values, IsTermEntry)),
                                <<>>, -1)]
    IN  Sentence(Collect(MapSeq(Semeval2015Opinion, find_all(sentence_tag, "opinion"))))

Semeval2015Review(doc_tag) ==
    LET Document(sentences) ==
            IF sentences.raised # "" THEN [raised |-> sentences.raised]
            ELSE [raised |-> "", value |-> Review(sentences.values)]
    IN  Document(Collect(MapSeq(Semeval2015Sentence, find_all(doc_tag, "sentence"))))

\* an adapter for which a train or test partition without locator is fatal
Semeval2015PartitionRequired(filepath) ==
    IF filepath = None THEN [raised |-> "TypeError"]
    ELSE LET Documents(r) == IF r.raised # "" THEN [raised |-> r.raised]
                             ELSE [raised |-> "", value |-> Some(r.values)]
             Content(f) ==
                 IF f.raised # "" THEN [raised |-> f.raised]
                 ELSE Documents(Collect(MapSeq(Semeval2015Review,
                                               find_all(f.content, "review"))))
         IN  Content(read_all_content(filepath))

\* what is appended to datas for one locator
Semeval2015Partition(filepath) ==
    IF filepath = None THEN [raised |-> "", value |-> None]
    ELSE LET Documents(r) == IF r.raised # "" THEN [raised |-> r.raised]
                             ELSE [raised |-> "", value |-> Some(r.values)]
             Content(f) ==
                 IF f.raised # "" THEN [raised |-> f.raised]
                 ELSE Documents(Collect(MapSeq(Semeval2015Review,
                                               find_all(f.content, "review"))))
         IN  Content(read_all_content(filepath))

Semeval2015Task12_load_data_by_filepath(train_filepath, test_filepath) ==
    LET Result(r) ==
            IF r.raised # "" THEN [raised |-> r.raised]
            ELSE [raised |-> "",
                  data |-> [train |-> r.values[1], dev |-> None, test |-> r.values[2]]]
    IN  Result(Collect(<<Semeval2015Partition(train_filepath),
                         Semeval2015Partition(test_filepath)>>))

Semeval2015Task12Hotel_load_data(test_filepath) ==
    Semeval2015Task12_load_data_by_filepath(None, test_filepath)

(***************************************************************************)
(* Semeval2016Task5Sub2._load_data_by_filepath(train_filepath,              *)
(* test_filepath): opinions are attached to the document                    *)
(***************************************************************************)
TargetStr == <<"t", "a", "r", "g", "e", "t">>

\* 'target' in opinion_tag
Sub2Opinion(opinion_tag) ==
    IF ~({"category", "polarity"} \subseteq DOMAIN opinion_tag.attrs)
    THEN [raised |-> "KeyError"]
    ELSE IF InContents(opinion_tag, TargetStr) THEN OpinionTerm(opinion_tag)
    ELSE OpinionCategory(opinion_tag)

Sub2Sentence(sentence_tag) == AbsaSentence(get_text(sentence_tag), None, None, None, <<>>, -1)

Sub2Review(doc_tag) ==
    LET Document(sentences, opinions) ==
            IF opinions.raised # "" THEN [raised |-> opinions.raised]
            ELSE [raised |-> "",
                  value |-> AbsaDocument(Concat(MapSeq(TextOf, sentences)), None,
                                MapSeq(EntryOf, SelectSeq(opinions.values, IsCategoryEntry)),
                                MapSeq(EntryOf, SelectSeq(opinions.values, IsTermEntry)),
                                sentences, <<>>)]
    IN  Document(MapSeq(Sub2Sentence, find_all(doc_tag, "sentence")),
                 Collect(MapSeq(Sub2Opinion, find_all(doc_tag, "opinion"))))

Sub2Partition(filepath) ==
    IF filepath = None THEN [raised |-> "", value |-> None]
    ELSE LET Documents(r) == IF r.raised # "" THEN [raised |-> r.raised]
                             ELSE [raised |-> "", value |-> Some(r.values)]
             Content(f) ==
                 IF f.raised # "" THEN [raised |-> f.raised]
                 ELSE Documents(Collect(MapSeq(Sub2Review, find_all(f.content, "review"))))
         IN  Content(read_all_content(filepath))

Semeval2016Task5Sub2_load_data_by_filepath(train_filepath, test_filepath) ==
    LET Result(r) ==
            IF r.raised # "" THEN [raised |-> r.raised]
            ELSE [raised |-> "",
                  data |-> [train |-> r.values[1], dev |-> None, test |-> r.values[2]]]
    IN  Result(Collect(<<Sub2Partition(train_filepath), Sub2Partition(test_filepath)>>))

(***************************************************************************)
(* Nlpcc2012WeiboSa._load_data(): train and dev are split from the weibo    *)
(* files, whose sentences carry their aspect terms as numbered attributes;  *)
(* test is read from text files with opinion snippets beside them.          *)
(***************************************************************************)
\* 'target_word_%d' % n and its three siblings
IndexedNames ==
    [target_word |-> <<"target_word_1", "target_word_2", "target_word_3",
                       "target_word_4", "target_word_5">>,
     target_begin |-> <<"target_begin_1", "target_begin_2", "target_begin_3",
                        "target_begin_4", "target_begin_5">>,
     target_end |-> <<"target_end_1", "target_end_2", "target_end_3",
                      "target_end_4", "target_end_5">>,
     target_polarity |-> <<"target_polarity_1", "target_polarity_2", "target_polarity_3",
                           "target_polarity_4", "target_polarity_5">>]

IndexedName(family, n) == IndexedNames[family][n]

\* tag.get(key) where the attribute may be absent
get_or_none(tag, key) == IF HasAttr(tag, key) THEN Some(tag.attrs[key]) ELSE None

\* the condition of the while loop
NlpccMore(sentence_tag, cursor) ==
    get(sentence_tag, IndexedName("target_word", cursor), <<>>) # <<>>

\* a target_end taken as it is
NlpccTargetEndRaw(target_end) == int(target_end)

NlpccTargetEnd(target_end) == int(target_end) + 1

\* one pass of the while loop
NlpccTerm(sentence_tag, cursor) ==
    LET Term(target_begin, target_end, target_polarity) ==
        IF target_begin = None THEN [raised |-> "TypeError"]
        ELSE IF ~IsInt(target_begin.items) THEN [raised |-> "ValueError"]
        ELSE IF target_end = None THEN [raised |-> "TypeError"]
        ELSE IF ~IsInt(target_end.items) THEN [raised |-> "ValueError"]
        ELSE [raised |-> "",
              value |-> AspectTerm(sentence_tag.attrs[IndexedName("target_word", cursor)],
                                   IF target_polarity = None THEN NoneStr
                                   ELSE target_polarity.items,
                                   int(target_begin.items),
                                   NlpccTargetEnd(target_end.items), NoneStr)]
    IN  Term(get_or_none(sentence_tag, IndexedName("target_begin", cursor)),
             get_or_none(sentence_tag, IndexedName("target_end", cursor)),
             get_or_none(sentence_tag, IndexedName("target_polarity", cursor)))

RECURSIVE NlpccTerms(_, _)
NlpccTerms(sentence_tag, cursor) ==
    IF ~NlpccMore(sentence_tag, cursor) THEN [raised |-> "", values |-> <<>>]
    ELSE LET Terms(t, rest) ==
                 IF t.raised # "" THEN [raised |-> t.raised]
                 ELSE IF rest.raised # "" THEN [raised |-> rest.raised]
                 ELSE [raised |-> "", values |-> <<t.value>> \o rest.values]
         IN  Terms(NlpccTerm(sentence_tag, cursor), NlpccTerms(sentence_tag, cursor + 1))

Yes == <<"Y">>

NlpccSentence(sentence_tag, sentence_start_index) ==
    LET Sentence(opinionated, aspect_terms) ==
            IF aspect_terms.raised # "" THEN [raised |-> aspect_terms.raised]
            ELSE [raised |-> "",
                  value |-> AbsaSentence(get_text(sentence_tag),
                                IF opinionated THEN get_or_none(sentence_tag, "polarity")
                                ELSE None,
                                None, aspect_terms.values, get(sentence_tag, "id", <<>>),
                                sentence_start_index)]
    IN  IF get(sentence_tag, "opinionated", <<>>) = Yes
        THEN Sentence(TRUE, NlpccTerms(sentence_tag, 1))
        ELSE Sentence(FALSE, [raised |-> "", values |-> <<>>])

\* the sentences of sentence_tags[i:], the first of them starting at
\* sentence_start_index
RECURSIVE NlpccSentences(_, _, _)
NlpccSentences(sentence_tags, i, sentence_start_index) ==
    IF i > Len(sentence_tags) THEN [raised |-> "", values |-> <<>>]
    ELSE LET Rest(r, rest) ==
                 IF rest.raised # "" THEN [raised |-> rest.raised]
                 ELSE [raised |-> "", values |-> <<r.value>> \o rest.values]
             From(r) ==
                 IF r.raised # "" THEN [raised |-> r.raised]
                 ELSE Rest(r, NlpccSentences(sentence_tags, i + 1,
                                             sentence_start_index + Len(r.value.text)))
         IN  From(NlpccSentence(sentence_tags[i], sentence_start_index))

NlpccWeibo(weibo_tag) ==
    LET Document(sentences) ==
            IF sentences.raised # "" THEN [raised |-> sentences.raised]
            ELSE [raised |-> "",
                  value |-> AbsaDocument(Concat(MapSeq(TextOf, sentences.values)), None, None,
                                         None, sentences.values, get(weibo_tag, "id", <<>>))]
    IN  Document(NlpccSentences(find_all(weibo_tag, "sentence"), 1, 0))

\* the weibos of one file of the data directory
NlpccFile(filepath) ==
    LET Weibos(r) == IF r.raised # "" THEN [raised |-> r.raised]
                     ELSE [raised |-> "", value |-> r.values]
        Content(f) == IF f.raised # "" THEN [raised |-> f.raised]
                      ELSE Weibos(Collect(MapSeq(NlpccWeibo, find_all(f.content, "weibo"))))
    IN  Content(read_all_content(filepath))

\* s.split(sep) for a separator of one character
RECURSIVE split(_, _)
split(s, sep) ==
    LET At(i) == IF i = -1 THEN <<s>>
                 ELSE <<SubSeq(s, 1, i)>> \o split(SubSeq(s, i + 2, Len(s)), sep)
    IN  At(find(s, <<sep>>))

Other == <<"o", "t", "h", "e", "r">>
RootTextBegin == <<"r", "o", "o", "t", "_", "t", "e", "x", "t", "_", "b", "e", "g", "i", "n">>

\* a polarity that asks for a snippet equal to the line
NlpccPolarityEqual(test_line, opinion_snippets) ==
    IF \E i \in 1..Len(opinion_snippets) : opinion_snippets[i] = test_line
    THEN Some(Other) ELSE None

\* the polarity of one line of a test file
NlpccPolarity(test_line, opinion_snippets) ==
    IF \E i \in 1..Len(opinion_snippets) : contains(test_line, opinion_snippets[i])
    THEN Some(Other) ELSE None

IsNotEmptyLine(line) == Len(line) # 0

HasNoRootText(line) == ~contains(line, RootTextBegin)

\* the lines without the marker, wherever they stand
UntilRootTextSkip(lines) == SelectSeq(lines, HasNoRootText)

\* test_lines_temp[: test_line_end_index]
RECURSIVE UntilRootText(_)
UntilRootText(lines) ==
    IF lines = <<>> \/ contains(Head(lines), RootTextBegin) THEN <<>>
    ELSE <<Head(lines)>> \o UntilRootText(Tail(lines))

\* the document of one text file and the annotation file beside it
NlpccTestFile(test_filepath, test_filepath_ann) ==
    LET Document(sentences) ==
            [raised |-> "",
             value |-> AbsaDocument(Concat(MapSeq(TextOf, sentences)), None, None, None,
                                    sentences, <<>>)]
        Labelled(test_lines, opinion_snippets) ==
            Document([i \in 1..Len(test_lines) |->
                         AbsaSentence(test_lines[i],
                                      NlpccPolarity(test_lines[i], opinion_snippets),
                                      None, None, <<>>, -1)])
        Snippets(test_lines, fields) ==
            IF \E i \in 1..Len(fields) : Len(fields[i]) < 3 THEN [raised |-> "IndexError"]
            ELSE Labelled(test_lines, [i \in 1..Len(fields) |-> fields[i][3]])
        Lines(test_lines, test_ann_lines) ==
            Snippets(test_lines,
                     [i \in 1..Len(test_ann_lines) |-> split(test_ann_lines[i], "\t")])
        Files(txt, ann) ==
            IF txt.raised # "" THEN [raised |-> txt.raised]
            ELSE IF ann.raised # "" THEN [raised |-> ann.raised]
            ELSE Lines(UntilRootText(SubSeq(txt.lines, 2, Len(txt.lines))),
                       SelectSeq(ann.lines, IsNotEmptyLine))
    IN  Files(read_all_lines(test_filepath), read_all_lines(test_filepath_ann))

NlpccTestPair(pair) == NlpccTestFile(pair.txt, pair.ann)

\* the share of the weibos that becomes dev
NlpccDevSize == <<1, 5>>

Nlpcc2012WeiboSa_load_data(filepaths, test_pairs, seed, g) ==
    LET Result(s, samples_test) ==
            IF s.raised # "" THEN [raised |-> s.raised]
            ELSE IF samples_test.raised # "" THEN [raised |-> samples_test.raised]
            ELSE [raised |-> "",
                  data |-> [train |-> Some(s.train), dev |-> Some(s.test),
                            test |-> Some(samples_test.values)]]
        Samples(files) ==
            IF files.raised # "" THEN [raised |-> files.raised]
            ELSE Result(train_test_split(Some(Concat(files.values)), NlpccDevSize, seed, g),
                        Collect(MapSeq(NlpccTestPair, test_pairs)))
    IN  Samples(Collect(MapSeq(NlpccFile, filepaths)))

(***************************************************************************)
(* load_csv_data(filepath, skip_first_line): every line of the file is      *)
(* given alone to csv.reader.                                               *)
(***************************************************************************)
\* the row csv.reader (excel dialect, not strict) makes of the rest of a
\* line: state is where the reader stands (at the start of a field, in a
\* plain field, in a quoted field, after a quote in a quoted field), field
\* what it has of the current field, row the fields it finished
RECURSIVE csv_fields(_, _, _, _)
csv_fields(line, state, field, row) ==
    IF line = <<>>
    THEN IF state = "start" THEN (IF row = <<>> THEN <<>> ELSE Append(row, <<>>))
         ELSE Append(row, field)
    ELSE LET Step(c, rest) ==
                 CASE state = "start" ->
                        IF c = "\"" THEN csv_fields(rest, "quoted", <<>>, row)
                        ELSE IF c = "," THEN csv_fields(rest, "start", <<>>, Append(row, <<>>))
                        ELSE csv_fields(rest, "field", <<c>>, row)
                   [] state = "field" ->
                        IF c = "," THEN csv_fields(rest, "start", <<>>, Append(row, field))
                        ELSE csv_fields(rest, "field", Append(field, c), row)
                   [] state = "quoted" ->
                        IF c = "\"" THEN csv_fields(rest, "quote", field, row)
                        ELSE csv_fields(rest, "quoted", Append(field, c), row)
                   [] OTHER ->
                        IF c = "\"" THEN csv_fields(rest, "quoted", Append(field, c), row)
                        ELSE IF c = "," THEN csv_fields(rest, "start", <<>>, Append(row, field))
                        ELSE csv_fields(rest, "field", Append(field, c), row)
         IN  Step(Head(line), Tail(line))

\* the one row of csv.reader([line])
csv_row(line) == csv_fields(line, "start", <<>>, <<>>)

\* a load_csv_data that leaves out the rows whose column count is not that
\* of the first row
load_csv_data_same_width(filepath, skip_first_line) ==
    LET Rows(result) ==
            LET Same(row) == Len(row) = Len(result[1])
            IN  [raised |-> "",
                 rows |-> IF skip_first_line THEN SubSeq(SelectSeq(result, Same), 2,
                                                         Len(SelectSeq(result, Same)))
                          ELSE SelectSeq(result, Same),
                 printed |-> <<>>]
        Lines(f) == IF f.raised # "" THEN [raised |-> f.raised]
                    ELSE Rows([i \in 1..Len(f.lines) |-> csv_row(f.lines[i])])
    IN  Lines(read_all_lines(filepath))

\* rows is what is returned, printed what print(row) wrote, in order
load_csv_data(filepath, skip_first_line) ==
    LET Rows(result) ==
            LET Differs(row) == Len(row) # Len(result[1])
            IN  [raised |-> "",
                 rows |-> IF skip_first_line THEN SubSeq(result, 2, Len(result)) ELSE result,
                 printed |-> SelectSeq(result, Differs)]
        Lines(f) == IF f.raised # "" THEN [raised |-> f.raised]
                    ELSE Rows([i \in 1..Len(f.lines) |-> csv_row(f.lines[i])])
    IN  Lines(read_all_lines(filepath))

\* all sequences over s of length at most n
RECURSIVE SeqsUpTo(_, _)
SeqsUpTo(s, n) ==
    IF n = 0 THEN {<<>>}
    ELSE LET shorter == SeqsUpTo(s, n - 1)
         IN  shorter \cup {Append(q, x) : q \in {r \in shorter : Len(r) = n - 1}, x \in s}

(***************************************************************************)
(* State.                                                                   *)
(***************************************************************************)
VARIABLES
    cls,         \* the class of the dataset object
    data,        \* get_data_type_and_data_dict(): train_data, dev_data, test_data
    g,           \* state of the process-wide random generator
    call,        \* the last call: method, size argument, seed, dict passed in
    raised,      \* the exception the last call raised, "" if it returned
    result,      \* the result dict of the last call
    categories,  \* the category vocabulary the last call returned
    polarities,  \* the polarity vocabulary the last call returned
    pin          \* an earlier call and its outcome, kept for comparison

vars == <<cls, data, g, call, raised, result, categories, polarities, pin>>

Sizes == {<<0, 1>>, <<1, 5>>}
Seeds == {DefaultRandomState, DefaultRandomState + 1}

NoPin == [pinned |-> FALSE, tracking |-> TRUE]
Untracked == [pinned |-> FALSE, tracking |-> FALSE]

Outcome == [call |-> call, raised |-> raised, result |-> result]

\* the calls worth keeping for comparison: a derivation, or a
\* generate_dev_data on a dict without dev
Pinnable(o) == o.call.method # "generate_dev_data" \/ o.call.input.dev = None

\* pin keeps the outcome of one earlier call, chosen freely among them
Pins(o) == IF pin = NoPin /\ Pinnable(o) THEN {NoPin, [pinned |-> TRUE, outcome |-> o]} ELSE {pin}

Call(method, size, seed, input) == [method |-> method, size |-> size, seed |-> seed, input |-> input]

NoCall == Call("", NoSize, NoSeed, None)

\* the state after a derivation method returned or raised r
Returned(c, r) ==
    /\ call' = c
    /\ raised' = r.raised
    /\ g' = r.g
    /\ result' = IF r.raised = "" THEN r.result ELSE None
    /\ categories' = IF r.raised = "" THEN r.categories ELSE None
    /\ polarities' = IF r.raised = "" THEN r.polarities ELSE None
    /\ pin' \in Pins(Outcome')
    /\ UNCHANGED <<cls, data>>

GenerateAtsaData ==
    \E test_size \in Sizes \cup {NoSize} :
        Returned(Call("generate_atsa_data", test_size, NoSeed, None),
                 generate_atsa_data(data, test_size, g))

GenerateAcdAndScData ==
    \E dev_size \in Sizes :
        Returned(Call("generate_acd_and_sc_data", dev_size, NoSeed, None),
                 CASE cls = "Semeval2014Task4Rest" ->
                        Semeval2014Task4Rest_generate_acd_and_sc_data(data, dev_size, g)
                   [] cls = "Semeval2016Task5ChCameSub1" ->
                        Semeval2016Task5ChCameSub1_generate_acd_and_sc_data(data, dev_size, g)
                   [] cls = "Semeval2016Task5Sub2" ->
                        Semeval2016Task5Sub2_generate_acd_and_sc_data(data, dev_size, g)
                   [] OTHER -> Semeval2015Task12_generate_acd_and_sc_data(data, dev_size, g))

GenerateAspectCategoryDetectionData ==
    /\ cls \in {"Semeval2016Task5ChCameSub1", "Semeval2016Task5RestSub1"}
    /\ \E test_size \in Sizes :
        Returned(Call("generate_aspect_category_detection_data", test_size, NoSeed, None),
                 IF cls = "Semeval2016Task5RestSub1"
                 THEN Semeval2016Task5RestSub1_generate_aspect_category_detection_data(data, test_size, g)
                 ELSE Semeval2016Task5Sub1_generate_aspect_category_detection_data(data, test_size, g))

GenerateEntityDetectionData ==
    /\ cls = "Semeval2016Task5RestSub1"
    /\ \E test_size \in Sizes :
        Returned(Call("generate_entity_detection_data", test_size, NoSeed, None),
                 Semeval2016Task5RestSub1_generate_entity_detection_data(data, test_size, g))

\* generate_dev_data called on the dict the last derivation returned; the
\* dict is changed in place and nothing is returned
GenerateDevData ==
    /\ result # None
    /\ \E dev_size \in Sizes, random_state \in Seeds :
        LET r == generate_dev_data(result, dev_size, random_state, g)
        IN  /\ call' = Call("generate_dev_data", dev_size, random_state, result)
            /\ raised' = r.raised
            /\ g' = r.g
            /\ result' = r.result
            /\ pin' \in Pins(Outcome')
            /\ UNCHANGED <<cls, data, categories, polarities>>

\* the constructor calls the adapter once; the dataset object then holds
\* the record the adapter returned, and there is none when it raised r
Loaded(c, r) ==
    /\ call = NoCall
    /\ call' = c
    /\ raised' = r.raised
    /\ data' = IF r.raised = "" THEN r.data ELSE EmptyResult
    /\ UNCHANGED <<cls, g, result, categories, polarities, pin>>

\* the resources of the token-placeholder adapter: a train file of one
\* record, followed or not by a second one, and a test file of one record
CtxChars == {"a", " ", "T"}

AsgcnLines ==
    {left \o mid \o right :
        left \in SeqsUpTo(CtxChars, MaxCtxLen),
        mid \in {Placeholder, <<>>, <<"$", "T">>, <<"$", "t", "$">>},
        right \in SeqsUpTo(CtxChars, 1)}

AsgcnAspects == {<<"a">>, <<" ", "A", " ", "b", " ">>, <<" ">>}
AsgcnPolarities == {<<"1">>, <<"-", "1", "\n">>, <<"2">>}
AsgcnFixed == <<<<"a", " ", "$", "T", "$">>, <<"b">>, <<"0">>>>

LoadAsgcn ==
    /\ cls = "AsgcnData"
    /\ \E line \in AsgcnLines, aspect \in AsgcnAspects, polarity \in AsgcnPolarities,
          more \in {<<>>, AsgcnFixed} :
        LET train_filepath == File(<<line, aspect, polarity>> \o more)
            test_filepath == File(AsgcnFixed)
        IN  Loaded(Call("_load_data_by_filepath", NoSize, NoSeed,
                        [train |-> train_filepath, dev |-> None, test |-> test_filepath]),
                   AsgcnData_load_data_by_filepath(train_filepath, test_filepath))

\* the XML resources: a review of two sentences, the first with the given
\* opinions, and with the given opinions of the review as a whole
OpinionAttrs ==
    {[target |-> <<"a">>, category |-> FoodQuality, polarity |-> positive,
      from |-> <<"0">>, to |-> <<"1">>],
     [target |-> <<"b">>, category |-> ServiceGeneral, polarity |-> negative,
      from |-> <<"1", "2">>, to |-> <<" ", "1", "5">>],
     [category |-> Ambience, polarity |-> neutral],
     [category |-> FoodQuality, polarity |-> negative],
     [category |-> Ambience]}

OpinionTags ==
    {Tag("opinion", a, <<>>) : a \in OpinionAttrs}
        \cup {Tag("opinion", [category |-> FoodPrices, polarity |-> conflict],
                  <<NavigableString(TargetStr)>>)}

SentenceTag(text, opinions) ==
    Tag("sentence", NoAttrs,
        <<Tag("text", NoAttrs, <<NavigableString(text)>>), Tag("opinions", NoAttrs, opinions)>>)

ReviewTag(sentence_opinions, review_opinions) ==
    Tag("review", NoAttrs,
        <<Tag("sentences", NoAttrs,
              <<SentenceTag(<<"a", "b">>, sentence_opinions), SentenceTag(<<"c">>, <<>>)>>),
          Tag("opinions", NoAttrs, review_opinions)>>)

Soup(reviews) == Tag("[document]", NoAttrs, <<Tag("reviews", NoAttrs, reviews)>>)

FixedSoup == Soup(<<ReviewTag(<<>>, <<>>), ReviewTag(<<>>, <<>>)>>)

\* the resources of Semeval2014Task4: sentences with aspectTerm and
\* aspectCategory elements
TermAttrs ==
    {[term |-> <<"a">>, polarity |-> positive, from |-> <<"0">>, to |-> <<"1">>],
     [term |-> <<"b">>, polarity |-> conflict, from |-> <<"1", "0">>, to |-> <<"1", "1">>],
     [term |-> <<"a">>, polarity |-> neutral, from |-> <<"0">>]}

TermTags == {Tag("aspectterm", a, <<>>) : a \in TermAttrs}

Sentence2014(text, term_tags, category_tags) ==
    Tag("sentence", NoAttrs,
        <<Tag("text", NoAttrs, <<NavigableString(text)>>),
          Tag("aspectterms", NoAttrs, term_tags),
          Tag("aspectcategories", NoAttrs, category_tags)>>)

Soup2014(terms) ==
    Tag("[document]", NoAttrs, <<Tag("sentences", NoAttrs,
        <<Sentence2014(<<"a", "b">>, terms,
                        <<Tag("aspectcategory",
                              [category |-> FoodQuality, polarity |-> positive], <<>>)>>),
          Sentence2014(<<"c">>, <<>>, <<>>)>>)>>)

LoadSemeval2014 ==
    /\ cls = "Semeval2014Task4"
    /\ \E terms \in SeqsUpTo(TermTags, MaxOpinions) :
        \E train_filepath \in {None, Missing, File(Soup2014(terms))},
           test_filepath \in {None, File(Soup2014(<<>>))},
           val_filepath \in {None, Missing, File(Soup2014(<<>>))} :
            Loaded(Call("_load_semeval_by_filepath", NoSize, NoSeed,
                        [train |-> train_filepath, dev |-> val_filepath,
                         test |-> test_filepath]),
                   Semeval2014Task4_load_semeval_by_filepath(train_filepath, test_filepath,
                                                             val_filepath))

LoadSemeval2015 ==
    /\ cls = "Semeval2015Task12"
    /\ \E opinions \in SeqsUpTo(OpinionTags, MaxOpinions) :
        \E train_filepath \in {None, Missing, File(Soup(<<ReviewTag(opinions, <<>>)>>))},
           test_filepath \in {None, Missing, File(FixedSoup)} :
            Loaded(Call("_load_data_by_filepath", NoSize, NoSeed,
                        [train |-> train_filepath, dev |-> None, test |-> test_filepath]),
                   Semeval2015Task12_load_data_by_filepath(train_filepath, test_filepath))

LoadSemeval2015Hotel ==
    /\ cls = "Semeval2015Task12Hotel"
    /\ \E opinions \in SeqsUpTo(OpinionTags, MaxOpinions) :
        \E test_filepath \in {Missing, File(Soup(<<ReviewTag(opinions, <<>>)>>))} :
            Loaded(Call("_load_data", NoSize, NoSeed,
                        [train |-> None, dev |-> None, test |-> test_filepath]),
                   Semeval2015Task12Hotel_load_data(test_filepath))

LoadSemeval2016Sub2 ==
    /\ cls = "Semeval2016Task5Sub2"
    /\ \E opinions \in SeqsUpTo(OpinionTags, MaxOpinions) :
        \E train_filepath \in {None, Missing, File(Soup(<<ReviewTag(<<>>, opinions)>>))},
           test_filepath \in {None, Missing, File(FixedSoup)} :
            Loaded(Call("_load_data_by_filepath", NoSize, NoSeed,
                        [train |-> train_filepath, dev |-> None, test |-> test_filepath]),
                   Semeval2016Task5Sub2_load_data_by_filepath(train_filepath, test_filepath))

\* the resources of Nlpcc2012WeiboSa: a file of three weibos, the second
\* with one sentence whose numbered attributes are, index by index, a
\* word with its span, an empty word with its span, or nothing; and a text
\* file of a header and up to four lines with the snippets of its
\* annotation file
TargetChoices == {"a", "ab", "empty", "absent"}

TargetAttrs(choice, n) ==
    IF choice = "absent" THEN {}
    ELSE {<<IndexedName("target_word", n),
            IF choice = "a" THEN <<"a">> ELSE IF choice = "ab" THEN <<"a", "b">> ELSE <<>>>>,
          <<IndexedName("target_begin", n), IF choice = "ab" THEN <<"3">> ELSE <<"0">>>>,
          <<IndexedName("target_end", n), IF choice = "ab" THEN <<"1", "0">> ELSE <<"0">>>>,
          <<IndexedName("target_polarity", n), IF choice = "ab" THEN <<"N", "E", "G">>
                                               ELSE <<"P", "O", "S">>>>}

\* the attributes given as a set of (name, value) pairs
AttrsOf(pairs) ==
    [k \in {q[1] : q \in pairs} |-> (CHOOSE q \in pairs : q[1] = k)[2]]

NlpccSentenceTag(id, flags, choices) ==
    Tag("sentence",
        AttrsOf({<<"id", id>>}
                \cup {<<"opinionated", f>> : f \in flags}
                \cup {<<"polarity", <<"P", "O", "S">>>> : f \in flags}
                \cup UNION {TargetAttrs(choices[n], n) : n \in 1..Len(choices)}),
        <<NavigableString(<<"a", "b">> \o id)>>)

NlpccWeiboTag(id, sentences) == Tag("weibo", [id |-> id], sentences)

NlpccSoup(flags, choices) ==
    Tag("[document]", NoAttrs,
        <<NlpccWeiboTag(<<"1">>, <<NlpccSentenceTag(<<"1">>, {<<"N">>}, <<"a">>)>>),
          NlpccWeiboTag(<<"2">>, <<NlpccSentenceTag(<<"2">>, {Yes}, <<"ab">>),
                                   NlpccSentenceTag(<<"3">>, flags, choices)>>),
          NlpccWeiboTag(<<"3">>, <<>>)>>)

AnnLine(snippet) == <<"T", "1", "\t", "O", " ", "0", "\t">> \o snippet

AnnFiles ==
    {<<>>, <<AnnLine(<<"a">>)>>, <<<<>>, AnnLine(<<"a", "b">>)>>,
     <<AnnLine(<<"b", "b">>), AnnLine(<<"b", "a">>)>>, <<AnnLine(<<>>)>>,
     <<<<"T", "1", "\t", "O">>>>}

LoadNlpcc ==
    /\ cls = "Nlpcc2012WeiboSa"
    /\ \E flags \in {{}, {Yes}, {<<"N">>}}, choices \in SeqsUpTo(TargetChoices, MaxOpinions),
          seed \in Seeds, line \in SeqsUpTo({"a", "b"}, 2), cut \in BOOLEAN,
          ann \in AnnFiles, header \in {<<"a">>, RootTextBegin} :
        \* either the weibo file varies or the test file does
        /\ \/ line = <<"a">> /\ ~cut /\ ann = <<AnnLine(<<"a">>)>> /\ header = <<"a">>
           \/ flags = {Yes} /\ choices = <<"a">> /\ seed = DefaultRandomState
        /\ LET filepaths == <<File(NlpccSoup(flags, choices))>>
               test_pairs ==
                   <<[txt |-> File(<<header, line, <<"b", "a">>>>
                                   \o (IF cut THEN <<<<" ">> \o RootTextBegin>> ELSE <<>>)
                                   \o <<<<"a", "a", "b">>>>),
                      ann |-> File(ann)]>>
           IN  Loaded(Call("_load_data", NoSize, seed,
                           [train |-> [files |-> filepaths], dev |-> None,
                            test |-> [files |-> test_pairs]]),
                      Nlpcc2012WeiboSa_load_data(filepaths, test_pairs, seed, g))

\* generate_dev_data called on the dict of the canonical data
GenerateDevDataOnData ==
    \E dev_size \in Sizes, random_state \in Seeds :
        LET d == get_data_type_and_data_dict(data)
            r == generate_dev_data(d.dict, dev_size, random_state, g)
        IN  /\ call' = Call("generate_dev_data", dev_size, random_state, d.dict)
            /\ raised' = r.raised
            /\ g' = r.g
            /\ result' = r.result
            /\ data' = IF d.own THEN r.result ELSE data
            /\ UNCHANGED <<cls, categories, polarities, pin>>

Next ==
    \/ GenerateAtsaData
    \/ GenerateAcdAndScData
    \/ GenerateAspectCategoryDetectionData
    \/ GenerateEntityDetectionData
    \/ GenerateDevData

(***************************************************************************)
(* Initial states: the dataset object after construction, before any        *)
(* derivation call.  Three families of corpora are explored, each under its *)
(* own specification.                                                       *)
(***************************************************************************)
Fresh ==
    /\ call = NoCall
    /\ raised = ""
    /\ result = None
    /\ categories = None
    /\ polarities = None


\* (1) corpora for the split: up to MaxTrain one-sentence train documents,
\* pairwise different, every third one without opinions; an optional official
\* dev partition; a test document of two sentences.  Calls are kept for
\* comparison on the full-size corpora without a dev partition.
SplitOpinions(i) ==
    IF i % 3 = 0 THEN <<>>
    ELSE IF i % 3 = 1 THEN <<AspectTerm(<<"a">>, positive, 0, 1, FoodQuality)>>
    ELSE <<AspectTerm(<<"a">>, negative, 0, 1, ServiceGeneral),
           AspectTerm(<<"b">>, neutral, i, i + 1, ServiceGeneral)>>

SplitSentence(c, i) ==
    SentenceOf(c, [j \in 1..i |-> "a"] \o (IF i % 2 = 0 THEN <<"\r", "\n", "b">> ELSE <<"b">>),
               SplitOpinions(i))

SplitData(c, n, hasDev) ==
    [train |-> Some([i \in 1..n |-> Review(<<SplitSentence(c, i)>>)]),
     dev   |-> IF hasDev THEN Some(<<Review(<<SplitSentence(c, 1)>>)>>) ELSE None,
     test  |-> Some(<<Review(<<SplitSentence(c, 2), SplitSentence(c, 3)>>)>>)]

InitSplit ==
    /\ cls \in Classes
    /\ \E n \in 0..MaxTrain, hasDev \in BOOLEAN :
        /\ data = SplitData(cls, n, hasDev)
        /\ pin = IF n = MaxTrain /\ ~hasDev THEN NoPin ELSE Untracked
    /\ g \in 0..(RngMod - 1)
    /\ Fresh

\* (2) corpora for the reconciliation: a sentence with up to MaxTerms
\* opinions over two categories and all four polarities, and a second
\* sentence carrying the same opinions reversed or rotated; the two are the
\* train documents and also the two sentences of the test document
ReconTerms == {AspectTerm(<<"a">>, p, 0, 1, c) : p \in Polarities, c \in {FoodQuality, Ambience}}

Reverse(s) == [i \in 1..Len(s) |-> s[Len(s) + 1 - i]]
Rotate(s) == IF s = <<>> THEN s ELSE Tail(s) \o <<Head(s)>>

InitRecon ==
    /\ cls \in TermClasses
    /\ \E terms \in SeqsUpTo(ReconTerms, MaxTerms), other \in {"reverse", "rotate"} :
        LET first == SentenceOf(cls, <<"a">>, terms)
            second == SentenceOf(cls, <<"b">>,
                                 IF other = "reverse" THEN Reverse(terms) ELSE Rotate(terms))
        IN  data = [train |-> Some(<<Review(<<first>>), Review(<<second>>)>>),
                    dev   |-> None,
                    test  |-> Some(<<Review(<<first, second>>)>>)]
    /\ g = 0
    /\ pin = Untracked
    /\ Fresh

\* (3) corpora for the text normalisation: two train documents and one test
\* sentence whose text is any string of up to MaxTextLen characters over
\* letters, blanks, carriage returns and newlines
TextChars == {"a", " ", "\r", "\n"}

InitText ==
    /\ cls \in Classes
    /\ \E text \in SeqsUpTo(TextChars, MaxTextLen) :
        data = [train |-> Some(<<Review(<<SplitSentence(cls, 1)>>),
                                 Review(<<SplitSentence(cls, 2)>>)>>),
                dev   |-> None,
                test  |-> Some(<<Review(<<SentenceOf(cls, text,
                              <<AspectTerm(<<"a">>, positive, 0, 1, FoodPrices)>>)>>)>>)]
    /\ g = 0
    /\ pin = Untracked
    /\ Fresh

Init == InitSplit

Spec == Init /\ [][Next]_vars

\* the category task alone, on the corpora that vary the opinions
NextRecon == GenerateAcdAndScData

SpecRecon == InitRecon /\ [][NextRecon]_vars

\* the derivations alone, on the corpora that vary the text
NextDerive ==
    \/ GenerateAtsaData
    \/ GenerateAcdAndScData
    \/ GenerateAspectCategoryDetectionData
    \/ GenerateEntityDetectionData

SpecText == InitText /\ [][NextDerive]_vars

\* (4) the corpora of (1), no call kept, with generate_dev_data also called
\* on the canonical data
InitFrame ==
    /\ cls \in Classes
    /\ \E n \in 0..MaxTrain, hasDev \in BOOLEAN : data = SplitData(cls, n, hasDev)
    /\ pin = Untracked
    /\ g \in 0..(RngMod - 1)
    /\ Fresh

NextFrame ==
    \/ Next
    \/ GenerateDevDataOnData

SpecFrame == InitFrame /\ [][NextFrame]_vars

\* (5) corpora for the entity task: two train documents, and a test
\* sentence with two aspect terms whose categories are any strings of up to
\* MaxCatLen characters over a letter and the separator
CatStrings == SeqsUpTo({"F", "#"}, MaxCatLen)

InitEntity ==
    /\ cls = "Semeval2016Task5RestSub1"
    /\ \E c1 \in CatStrings, c2 \in CatStrings :
        data = [train |-> Some(<<Review(<<SplitSentence(cls, 1)>>),
                                 Review(<<SplitSentence(cls, 2)>>)>>),
                dev   |-> None,
                test  |-> Some(<<Review(<<SentenceOf(cls, <<"a", "b">>,
                              <<AspectTerm(<<"a">>, positive, 0, 1, c1),
                                AspectTerm(<<"b">>, negative, 1, 2, c2)>>)>>)>>)]
    /\ g = 0
    /\ pin = Untracked
    /\ Fresh

NextEntity == GenerateEntityDetectionData

SpecEntity == InitEntity /\ [][NextEntity]_vars

\* (6) the adapters: an object of an adapter class before its data is loaded
LoaderClasses ==
    {"AsgcnData", "Semeval2014Task4", "Semeval2015Task12", "Semeval2015Task12Hotel",
     "Semeval2016Task5Sub2", "Nlpcc2012WeiboSa"}

InitLoad ==
    /\ cls \in LoaderClasses
    /\ data = EmptyResult
    /\ g = 0
    /\ pin = Untracked
    /\ Fresh

\* the csv resources: files of up to MaxCsvLines lines over a letter, the
\* delimiter and the quote, or no file at the path
CsvChars == {"a", ",", "\""}

CsvFiles == {File(lines) : lines \in SeqsUpTo(SeqsUpTo(CsvChars, MaxCsvLen), MaxCsvLines)}
                \cup {Missing}

LoadCsvData ==
    /\ call = NoCall
    /\ \E filepath \in CsvFiles, skip_first_line \in BOOLEAN :
        LET Returns(r) ==
                /\ call' = Call("load_csv_data", NoSize, NoSeed,
                                [filepath |-> filepath, skip_first_line |-> skip_first_line])
                /\ raised' = r.raised
                /\ result' = IF r.raised = "" THEN [rows |-> r.rows, printed |-> r.printed]
                              ELSE None
        IN  Returns(load_csv_data(filepath, skip_first_line))
    /\ UNCHANGED <<cls, data, g, categories, polarities, pin>>

\* (7) the module function load_csv_data, called once on a csv resource
InitCsv ==
    /\ cls = ""
    /\ data = EmptyResult
    /\ g = 0
    /\ pin = Untracked
    /\ Fresh

NextCsv == LoadCsvData

SpecCsv == InitCsv /\ [][NextCsv]_vars

\* (8) the adapters whose partitions may be absent, and the category task
\* on the record the adapter returned
AbsentClasses == {"Semeval2015Task12", "Semeval2015Task12Hotel", "Semeval2016Task5Sub2"}

InitAbsent ==
    /\ cls \in AbsentClasses
    /\ data = EmptyResult
    /\ g = 0
    /\ pin = Untracked
    /\ Fresh

\* the constructor returned and no derivation was called yet
Constructed ==
    /\ call.method \in {"_load_data", "_load_data_by_filepath"}
    /\ raised = ""

GenerateAcdAndScDataLoaded == Constructed /\ GenerateAcdAndScData

NextAbsent ==
    \/ LoadSemeval2015
    \/ LoadSemeval2015Hotel
    \/ LoadSemeval2016Sub2
    \/ GenerateAcdAndScDataLoaded

SpecAbsent == InitAbsent /\ [][NextAbsent]_vars

NextLoad ==
    \/ LoadAsgcn
    \/ LoadSemeval2014
    \/ LoadSemeval2015
    \/ LoadSemeval2015Hotel
    \/ LoadSemeval2016Sub2
    \/ LoadNlpcc

SpecLoad == InitLoad /\ [][NextLoad]_vars

TypeOK ==
    /\ cls \in Classes \cup LoaderClasses \cup {""}
    /\ g \in 0..(RngMod - 1)
    /\ raised \in {"", "TypeError", "ValueError", "IndexError", "KeyError",
                    "FileNotFoundError"}

(***************************************************************************)
(* Properties of the multi-vote category task                               *)
(* (Semeval2015Task12.generate_acd_and_sc_data), checked under SpecRecon.   *)
(***************************************************************************)
Acsc2015Returned ==
    /\ call.method = "generate_acd_and_sc_data"
    /\ cls \in TermClasses
    /\ raised = ""

HasTerms(sentence) == sentence.aspect_terms # <<>>

\* the partitions of result that hold their samples in derivation order:
\* test always, train unless a dev partition was carved out of it
Uncarved == {"test"} \cup (IF data.dev # None \/ call.size[1] = 0 THEN {"train"} ELSE {})

\* the sentences of partition dt that carry at least one aspect term
Voted(dt) == SelectSeq(Sentences(data[dt].items), HasTerms)

\* the polarities the aspect terms of one sentence give to a category
VoteSet(sentence, category) ==
    {sentence.aspect_terms[j].polarity :
        j \in {n \in 1..Len(sentence.aspect_terms) : sentence.aspect_terms[n].category = category}}

TermCategories(sentence) ==
    {sentence.aspect_terms[j].category : j \in 1..Len(sentence.aspect_terms)}

IsConflict(v) == (positive \in v /\ negative \in v) \/ conflict \in v

\* the four branches, in the order of the rule
Reconciled(v, emitted) ==
    \/ Cardinality(v) = 1 /\ emitted \in v
    \/ Cardinality(v) # 1 /\ IsConflict(v) /\ emitted = conflict
    \/ Cardinality(v) # 1 /\ ~IsConflict(v) /\ positive \in v /\ neutral \in v /\ emitted = positive
    \/ Cardinality(v) # 1 /\ ~IsConflict(v) /\ ~(positive \in v /\ neutral \in v)
         /\ emitted = negative

\* C1: for every sentence and every category among its aspect terms, the
\* label holds that category with the polarity the rule gives its vote set:
\* the single vote; else conflict when positive and negative, or conflict,
\* were voted; else positive when positive and neutral were voted; else
\* negative
C1_BranchOrder ==
    Acsc2015Returned =>
        \A dt \in Uncarved :
            /\ Len(result[dt].items) = Len(Voted(dt))
            /\ \A i \in 1..Len(Voted(dt)) :
                LET label == result[dt].items[i].label
                IN  /\ {label[k][1] : k \in 1..Len(label)} = TermCategories(Voted(dt)[i])
                    /\ \A k \in 1..Len(label) :
                           Reconciled(VoteSet(Voted(dt)[i], label[k][1]), label[k][2])

\* a sentence whose three terms vote positive, negative and neutral for one
\* category is labelled conflict: the conflict test came first
C1_Witness ==
    /\ Acsc2015Returned
    /\ Len(Voted("test")) > 0
    /\ Len(Voted("test")[1].aspect_terms) = 3
    /\ VoteSet(Voted("test")[1], FoodQuality) = {positive, negative, neutral}
    /\ result.test.items[1].label = <<<<FoodQuality, conflict>>>>

Count(x, s) == Cardinality({i \in 1..Len(s) : s[i] = x})

IsPermutation(a, b) == Len(a) = Len(b) /\ \A x \in Range(a) : Count(x, a) = Count(x, b)

\* C2: two sentences whose aspect terms are permutations of each other give
\* every category the same polarity; votes positive and negative in either
\* order give conflict, positive with neutral gives positive, negative with
\* neutral gives negative, positive alone gives positive
C2_OrderIndependent ==
    Acsc2015Returned =>
        /\ \A i, j \in 1..Len(Voted("test")) :
              IsPermutation(Voted("test")[i].aspect_terms, Voted("test")[j].aspect_terms)
                  => Range(result.test.items[i].label) = Range(result.test.items[j].label)
        /\ \A i \in 1..Len(Voted("test")) :
              \A c \in TermCategories(Voted("test")[i]) :
                  LET v == VoteSet(Voted("test")[i], c)
                      label == Range(result.test.items[i].label)
                  IN  /\ v = {positive, negative} => <<c, conflict>> \in label
                      /\ v = {positive, neutral} => <<c, positive>> \in label
                      /\ v = {negative, neutral} => <<c, negative>> \in label
                      /\ v = {positive} => <<c, positive>> \in label

\* the votes (positive, negative) and (negative, positive) for one category
\* are both labelled conflict
C2_Witness ==
    /\ Acsc2015Returned
    /\ Len(Voted("test")) = 2
    /\ MapSeq(TermPolarity, Voted("test")[1].aspect_terms) = <<positive, negative>>
    /\ MapSeq(TermPolarity, Voted("test")[2].aspect_terms) = <<negative, positive>>
    /\ TermCategories(Voted("test")[1]) = {Ambience}
    /\ result.test.items[1].label = <<<<Ambience, conflict>>>>
    /\ result.test.items[2].label = <<<<Ambience, conflict>>>>

\* the polarities of the labels of all samples of all partitions of result
EmittedPolarities ==
    UNION {UNION {{result[dt].items[i].label[k][2] :
                      k \in 1..Len(result[dt].items[i].label)} :
                  i \in 1..Len(result[dt].items)} :
           dt \in {d \in DOMAIN result : result[d] # None}}

\* C3: the polarity vocabulary is exactly the set of polarities of the
\* emitted (category, polarity) labels
C3_VocabularyIsEmitted ==
    Acsc2015Returned => Range(polarities.items) = EmittedPolarities

(***************************************************************************)
(* Properties of the derivations and of the split, checked under Spec.      *)
(***************************************************************************)
Present(r) == {dt \in DOMAIN r : r[dt] # None}

\* the samples of all present partitions of a result dict
SamplesOf(r) ==
    Concat([i \in 1..3 |-> IF r[DataTypes[i]] = None THEN <<>> ELSE r[DataTypes[i]].items])

\* what the label of the last call is built from
LabelSource(sentence) ==
    IF call.method = "generate_aspect_category_detection_data"
          /\ cls = "Semeval2016Task5ChCameSub1"
    THEN sentence.aspect_categories
    ELSE sentence.aspect_terms

HasEmptySource(sentence) == LabelSource(sentence) = <<>>
HasEmptyLabel(sample) == sample.label = <<>>

KeepsEmptyLabels ==
    /\ call.method \in {"generate_atsa_data", "generate_aspect_category_detection_data",
                        "generate_entity_detection_data"}
    /\ raised = ""

C5_SeededSplits ==
    (pin.pinned /\ call.method # "generate_dev_data" /\ pin.outcome.call = call)
        => (pin.outcome.raised = raised /\ pin.outcome.result = result)

\* C6: two calls of generate_dev_data with the same train list, the same
\* non-zero dev_size and the same random_state, on dicts without dev,
\* leave the same train and dev partitions
C6_DevDataDeterministic ==
    (/\ pin.pinned
     /\ call.method = "generate_dev_data"
     /\ pin.outcome.call.method = "generate_dev_data"
     /\ call.input.dev = None
     /\ pin.outcome.call.input.dev = None
     /\ call.input.train = pin.outcome.call.input.train
     /\ call.size = pin.outcome.call.size
     /\ call.size[1] # 0
     /\ call.seed = pin.outcome.call.seed)
        => /\ raised = pin.outcome.raised
           /\ result.train = pin.outcome.result.train
           /\ result.dev = pin.outcome.result.dev

\* a second generate_dev_data call with the arguments of a kept one carved a
\* two-sample train and a one-sample dev out of three samples
C6_Witness ==
    /\ pin.pinned
    /\ call.method = "generate_dev_data"
    /\ pin.outcome.call = call
    /\ call.input.dev = None
    /\ call.size[1] # 0
    /\ raised = ""
    /\ Len(call.input.train.items) = MaxTrain
    /\ Len(result.dev.items) = 1
    /\ Len(result.train.items) = MaxTrain - 1

\* C7: generate_dev_data with dev absent and dev_size zero sets dev to the
\* test partition and leaves train and test as they were
C7_ZeroSizeAliasesTest ==
    /\ (call.method = "generate_dev_data" /\ call.input.dev = None /\ call.size[1] = 0)
          => /\ raised = ""
             /\ result.dev = call.input.test
             /\ result.train = call.input.train
             /\ result.test = call.input.test
    /\ (call.method = "generate_acd_and_sc_data" /\ data.dev = None /\ call.size[1] = 0)
          => /\ raised = ""
             /\ result.dev = result.test
             /\ Len(result.train.items) <= Len(Sentences(data.train.items))

\* such a call was made with three train samples and two test samples
C7_Witness ==
    /\ call.method = "generate_dev_data"
    /\ call.input.dev = None
    /\ call.size[1] = 0
    /\ Len(call.input.train.items) = MaxTrain
    /\ Len(result.dev.items) = 2
    /\ result.dev = result.test

\* the number of sentences in the documents before document d
RECURSIVE Offset(_, _)
Offset(docs, d) ==
    IF d <= 1 THEN 0 ELSE Offset(docs, d - 1) + Len(docs[d - 1].absa_sentences)

LabelOf(sample) == sample.label
TermsOf(sentence) == sentence.aspect_terms

\* the partitions the last derivation did not carve a dev partition out of
UncarvedPresent ==
    {dt \in Present(data) : dt = "test" \/ data.dev # None \/ (dt = "train" /\ call.size[1] = 0)}

\* C8: the term task emits, for sentence k of document d, one sample at
\* that place in document-then-sentence order, labelled with the
\* sentence's aspect terms as they are; a carved dev partition only
\* redistributes those samples
C8_TermLabelsVerbatim ==
    (call.method = "generate_atsa_data" /\ raised = "") =>
        /\ \A dt \in UncarvedPresent :
              LET docs == data[dt].items
              IN  /\ Len(result[dt].items) = Offset(docs, Len(docs) + 1)
                  /\ \A d \in 1..Len(docs) :
                        \A k \in 1..Len(docs[d].absa_sentences) :
                            result[dt].items[Offset(docs, d) + k].label
                                = docs[d].absa_sentences[k].aspect_terms
        /\ IsPermutation(MapSeq(LabelOf, SamplesOf(result)), MapSeq(TermsOf, AllSentences(data)))

\* a sentence with a negative and a neutral term kept both, in that order
C8_Witness ==
    /\ call.method = "generate_atsa_data"
    /\ raised = ""
    /\ Len(result.test.items) = 2
    /\ MapSeq(TermPolarity, result.test.items[1].label) = <<negative, neutral>>
    /\ result.test.items[2].label = <<>>

(***************************************************************************)
(* Properties of the text normalisation and of the vocabularies, checked    *)
(* under SpecText: the test partition is one sentence of arbitrary text.    *)
(***************************************************************************)
TestText == data.test.items[1].absa_sentences[1].text
TestContent == result.test.items[1].content

NotCrLf(c) == ~IsCrLf(c)

\* content is text without its carriage returns and newlines
Stripped(text, content) == content = SelectSeq(text, NotCrLf)

\* content is text with a blank in the place of each carriage return and
\* each newline
EachReplaced(text, content) ==
    /\ Len(content) = Len(text)
    /\ \A i \in 1..Len(text) : content[i] = IF IsCrLf(text[i]) THEN " " ELSE text[i]

\* content is text with one blank in the place of each maximal run of
\* carriage returns and newlines
RunsReplaced(text, content) ==
    LET Leads(i) == ~(IsCrLf(text[i]) /\ i > 1 /\ IsCrLf(text[i - 1]))
        kept == SelectSeq([i \in 1..Len(text) |-> i], Leads)
    IN  /\ Len(content) = Len(kept)
        /\ \A n \in 1..Len(kept) :
              content[n] = IF IsCrLf(text[kept[n]]) THEN " " ELSE text[kept[n]]

Derived == call.method # "" /\ call.method # "generate_dev_data" /\ raised = ""

Ascending(v) ==
    /\ \A i \in 1..(Len(v) - 1) : StrLess(v[i], v[i + 1])
    /\ Cardinality(Range(v)) = Len(v)

\* C10: every vocabulary a derivation returned is a list in strictly
\* ascending lexicographic order without duplicates
C10_VocabulariesSorted ==
    /\ categories # None => Ascending(categories.items)
    /\ polarities # None => Ascending(polarities.items)

\* a derivation returned three categories that differ only late in the
\* string, and three polarities
C10_Witness ==
    /\ Derived
    /\ categories = Some(<<FoodPrices, FoodQuality, ServiceGeneral>>)
    /\ polarities = Some(<<negative, neutral, positive>>)

(***************************************************************************)
(* Properties of the token-placeholder adapter                              *)
(* (AsgcnData._load_data_by_filepath), checked under SpecLoad.              *)
(***************************************************************************)
AsgcnLoaded == cls = "AsgcnData" /\ call.method = "_load_data_by_filepath"

\* the lines of the train file of the last load
TrainLines == call.input.train.content

\* s is raw without its leading and trailing whitespace
IsStripOf(raw, s) ==
    \E i \in 1..(Len(raw) + 1) :
        /\ i + Len(s) - 1 <= Len(raw)
        /\ s = SubSeq(raw, i, i + Len(s) - 1)
        /\ \A j \in 1..(i - 1) : IsSpace(raw[j])
        /\ \A j \in (i + Len(s))..Len(raw) : IsSpace(raw[j])
        /\ s # <<>> => ~IsSpace(s[1]) /\ ~IsSpace(s[Len(s)])

\* every third line, stripped, is one of the three polarity codes
WellFormed(lines) ==
    /\ Len(lines) % 3 = 0
    /\ \A k \in 1..(Len(lines) \div 3) :
          \E code \in {<<"-", "1">>, <<"0">>, <<"1">>} : IsStripOf(lines[3 * k], code)

\* the sentence the adapter built from record k of the train file
TrainSentence(k) == data.train.items[k].absa_sentences[1]

\* C11: every aspect term of every sentence the token-placeholder adapter
\* produces spans its own term text, text[from_index:to_index] = term; the
\* span check never aborts the load: a file of well-formed records loads
\* completely, one one-term sentence per record, and no load ends in the
\* TypeError of the span check
C11_SpanMatchesTerm ==
    AsgcnLoaded =>
        /\ raised # "TypeError"
        /\ WellFormed(TrainLines) => raised = ""
        /\ raised = "" =>
              /\ Len(data.train.items) * 3 = Len(TrainLines)
              /\ \A dt \in {"train", "test"} :
                    \A d \in 1..Len(data[dt].items) :
                        LET sentence == data[dt].items[d].absa_sentences[1]
                            t == sentence.aspect_terms[1]
                        IN  /\ Len(sentence.aspect_terms) = 1
                            /\ t.from_index >= 0
                            /\ t.to_index <= Len(sentence.text)
                            /\ SubSeq(sentence.text, t.from_index + 1, t.to_index) = t.term

\* two records were loaded, the first with a two-word term after a left
\* context and before a right context
C11_Witness ==
    /\ AsgcnLoaded
    /\ raised = ""
    /\ Len(data.train.items) = 2
    /\ TrainSentence(1).text = <<"a", " ", "a", " ", "b", " ", "t">>
    /\ TrainSentence(1).aspect_terms[1].term = <<"a", " ", "b">>
    /\ TrainSentence(1).aspect_terms[1].from_index = 2
    /\ TrainSentence(1).aspect_terms[1].to_index = 5

\* the parts joined by single blanks
RECURSIVE JoinBlank(_)
JoinBlank(parts) ==
    IF parts = <<>> THEN <<>>
    ELSE IF Len(parts) = 1 THEN parts[1]
    ELSE parts[1] \o <<" ">> \o JoinBlank(Tail(parts))

NonEmptyStr(x) == x # <<>>

\* left and right are the stripped, lower-cased contexts of line: what
\* stands before and after its first placeholder, the whole line and
\* nothing when it has none
IsContexts(line, left, right) ==
    \E i \in 0..Len(line) :
        LET At(j) == /\ j + Len(Placeholder) <= Len(line)
                     /\ SubSeq(line, j + 1, j + Len(Placeholder)) = Placeholder
            before == SubSeq(line, 1, i)
            after == SubSeq(line, i + Len(Placeholder) + 1, Len(line))
            here == At(i)
            earlier == \E j \in 0..(i - 1) : At(j)
            nowhere == \A j \in 0..Len(line) : ~At(j)
        IN  \/ here /\ ~earlier /\ IsStripOf(lower(before), left)
                  /\ IsStripOf(lower(after), right)
            \/ nowhere /\ i = 0 /\ IsStripOf(lower(line), left) /\ right = <<>>

\* C18: for every record, from_index is len(left context) + 1 when the
\* stripped, lower-cased left context is not empty and 0 when it is,
\* to_index is from_index + len(term), and the text is left context, term
\* and right context joined by single blanks, an empty context left out
C18_OffsetsAndText ==
    (AsgcnLoaded /\ raised = "") =>
        \A k \in 1..Len(data.train.items) :
            LET t == TrainSentence(k).aspect_terms[1]
                text == TrainSentence(k).text
            IN  /\ IsStripOf(lower(TrainLines[3 * k - 1]), t.term)
                /\ t.to_index = t.from_index + Len(t.term)
                /\ \E left \in {SubSeq(text, 1, n) : n \in 0..Len(text)},
                      right \in {SubSeq(text, n, Len(text)) : n \in 1..(Len(text) + 1)} :
                       /\ IsContexts(TrainLines[3 * k - 2], left, right)
                       /\ t.from_index = IF left # <<>> THEN Len(left) + 1 ELSE 0
                       /\ text = JoinBlank(SelectSeq(<<left>>, NonEmptyStr) \o <<t.term>>
                                             \o SelectSeq(<<right>>, NonEmptyStr))

\* a record with a left context and none to the right, and a record with
\* neither: the term starts after the blank in the first and at 0 in the
\* second
C18_Witness ==
    /\ AsgcnLoaded
    /\ raised = ""
    /\ Len(data.train.items) = 2
    /\ TrainLines[1] = <<"a", "T", "$", "T", "$">>
    /\ TrainSentence(1).text = <<"a", "t", " ", "a">>
    /\ TrainSentence(1).aspect_terms[1].from_index = 3
    /\ data.test.items[1].absa_sentences[1].aspect_terms[1].from_index = 2
    /\ TrainSentence(1).aspect_terms[1].to_index = 4

(***************************************************************************)
(* Properties of the XML adapters, checked under SpecLoad.  call.input      *)
(* holds the locator the adapter was given for each partition, None where   *)
(* it was given none.                                                       *)
(***************************************************************************)
LoadReturned == call.method # "" /\ raised = ""

IsList(x) == DOMAIN x = {"items"}

\* in the record returned, the partitions without locator are None, never
\* an empty list, and the partitions with a locator are lists
LocatorsDecide ==
    \A dt \in DOMAIN data :
        IF call.input[dt] = None
        THEN data[dt] = None /\ data[dt] # Some(<<>>)
        ELSE IsList(data[dt]) /\ data[dt] # None

HasTarget(tag) == "target" \in DOMAIN tag.attrs
HasNoTarget(tag) == "target" \notin DOMAIN tag.attrs

\* the opinion elements of review d of the train file of the last load
TrainOpinions(d) == find_all(find_all(call.input.train.content, "review")[d], "opinion")

\* C17: in a document of the document-scoped adapter, the aspect terms are
\* the opinion elements that carry a target attribute, with that target,
\* and the aspect categories are the opinion elements that carry none
C17_TargetBecomesTerm ==
    (LoadReturned /\ cls = "Semeval2016Task5Sub2" /\ call.input.train \notin {None, Missing}) =>
        \A d \in 1..Len(data.train.items) :
            LET with == SelectSeq(TrainOpinions(d), HasTarget)
                without == SelectSeq(TrainOpinions(d), HasNoTarget)
                doc == data.train.items[d]
            IN  /\ Len(doc.aspect_terms) = Len(with)
                /\ \A i \in 1..Len(with) : doc.aspect_terms[i].term = with[i].attrs["target"]
                /\ Len(doc.aspect_categories) = Len(without)
                /\ \A i \in 1..Len(without) :
                       doc.aspect_categories[i].category = without[i].attrs["category"]

(***************************************************************************)
(* Properties of Nlpcc2012WeiboSa._load_data, checked under SpecLoad.       *)
(***************************************************************************)
NlpccReturned == LoadReturned /\ cls = "Nlpcc2012WeiboSa"

\* the sentences of the train and dev partitions, and the sentence
\* elements of the weibo file they were read from
WeiboSentences == Sentences(data.train.items \o data.dev.items)
WeiboSentenceTags == find_all(call.input.train.files[1].content, "sentence")

\* the element a sentence was built from: the one with its id
TagOf(sentence) ==
    CHOOSE tag \in Range(WeiboSentenceTags) : tag.attrs["id"] = sentence.sample_id

Opinionated(tag) == "opinionated" \in DOMAIN tag.attrs /\ tag.attrs["opinionated"] = <<"Y">>

WordAbsent(tag, n) == IndexedName("target_word", n) \notin DOMAIN tag.attrs

WordAbsentOrEmpty(tag, n) ==
    WordAbsent(tag, n) \/ tag.attrs[IndexedName("target_word", n)] = <<>>

\* the terms of sentence are built from the attributes numbered 1..n of tag
TermsFromIndices(sentence, tag, n) ==
    /\ Len(sentence.aspect_terms) = n
    /\ \A i \in 1..n :
          /\ sentence.aspect_terms[i].term = tag.attrs[IndexedName("target_word", i)]
          /\ sentence.aspect_terms[i].from_index
                = int(tag.attrs[IndexedName("target_begin", i)])
          /\ sentence.aspect_terms[i].to_index
                = int(tag.attrs[IndexedName("target_end", i)]) + 1

NotOpinionated(sentence) == sentence.aspect_terms = <<>> /\ sentence.polarity = None

\* C19 as stated: a sentence flagged 'Y' has one aspect term per index
\* from 1 up to the first index whose target_word attribute is absent, in
\* index order, with from_index = target_begin and to_index = target_end
\* + 1; any other sentence has no aspect terms and polarity None
C19_StopsAtAbsent ==
    NlpccReturned =>
        \A k \in 1..Len(WeiboSentences) :
            LET sentence == WeiboSentences[k]
                tag == TagOf(sentence)
            IN  IF Opinionated(tag)
                THEN \E n \in 0..4 :
                        /\ WordAbsent(tag, n + 1)
                        /\ \A i \in 1..n : ~WordAbsent(tag, i)
                        /\ TermsFromIndices(sentence, tag, n)
                ELSE NotOpinionated(sentence)

\* C19 as amended: the scan stops at the first index whose target_word
\* attribute is absent or empty
C19_StopsAtAbsentOrEmpty ==
    NlpccReturned =>
        \A k \in 1..Len(WeiboSentences) :
            LET sentence == WeiboSentences[k]
                tag == TagOf(sentence)
            IN  IF Opinionated(tag)
                THEN \E n \in 0..4 :
                        /\ WordAbsentOrEmpty(tag, n + 1)
                        /\ \A i \in 1..n : ~WordAbsentOrEmpty(tag, i)
                        /\ TermsFromIndices(sentence, tag, n)
                ELSE NotOpinionated(sentence)

\* a sentence flagged 'Y' with target_word_1 and target_word_2 got two
\* terms, the second from target_begin_2 = 3 and target_end_2 = 10
C19_Witness ==
    /\ NlpccReturned
    /\ \E k \in 1..Len(WeiboSentences) :
          /\ WeiboSentences[k].sample_id = <<"3">>
          /\ Opinionated(TagOf(WeiboSentences[k]))
          /\ Len(WeiboSentences[k].aspect_terms) = 2
          /\ WeiboSentences[k].aspect_terms[1].to_index = 1
          /\ WeiboSentences[k].aspect_terms[2].from_index = 3
          /\ WeiboSentences[k].aspect_terms[2].to_index = 11

\* sub occurs in s
Occurs(sub, s) ==
    \E i \in 0..(Len(s) - Len(sub)) : SubSeq(s, i + 1, i + Len(sub)) = sub

\* the opinion snippets beside the test file: the third tab-separated field
\* of every line of the annotation file that is not empty
TestSnippets ==
    LET lines == SelectSeq(call.input.test.files[1].ann.content, IsNotEmptyLine)
    IN  {split(lines[i], "\t")[3] : i \in 1..Len(lines)}

TestSentences == data.test.items[1].absa_sentences

\* C20: a sentence of the test corpus has polarity 'other' if and only if
\* at least one opinion snippet occurs in its line, and None otherwise
C20_OtherIffSnippet ==
    NlpccReturned =>
        \A k \in 1..Len(TestSentences) :
            IF \E snippet \in TestSnippets : Occurs(snippet, TestSentences[k].text)
            THEN TestSentences[k].polarity = Some(Other)
            ELSE TestSentences[k].polarity = None

\* with the snippet 'ab', the lines 'b' and 'ba' got None and the line 'aab'
\* got 'other'
C20_Witness ==
    /\ NlpccReturned
    /\ TestSnippets = {<<"a", "b">>}
    /\ Len(TestSentences) = 3
    /\ TestSentences[1].text = <<"b">>
    /\ TestSentences[1].polarity = None
    /\ TestSentences[2].polarity = None
    /\ TestSentences[3].text = <<"a", "a", "b">>
    /\ TestSentences[3].polarity = Some(Other)

(***************************************************************************)
(* The canonical data under derivation, checked under SpecFrame.            *)
(***************************************************************************)
\* C14: no call of generate_atsa_data, generate_acd_and_sc_data,
\* generate_aspect_category_detection_data, generate_entity_detection_data
\* or generate_dev_data changes the canonical data: the three partitions
\* and every document, sentence, aspect term and aspect category in them
\* are after the call what they were before it
C14_CanonicalDataUnchanged == [][data' = data]_vars

\* generate_dev_data was called on the dict of the canonical data and
\* carved a dev partition in that dict, and the dataset still has none
C14_Witness ==
    /\ call.method = "generate_dev_data"
    /\ call.input = data
    /\ raised = ""
    /\ data.dev = None
    /\ Len(data.train.items) = MaxTrain
    /\ result.dev # None
    /\ Len(result.dev.items) = 1
    /\ Len(result.train.items) = MaxTrain - 1

(***************************************************************************)
(* Properties of the detection tasks.                                       *)
(***************************************************************************)
DetectionReturned ==
    /\ call.method \in {"generate_aspect_category_detection_data",
                        "generate_entity_detection_data"}
    /\ raised = ""

\* C15: in the output of the category-detection and entity-detection
\* tasks no category occurs more than once in the label of a sample
C15_LabelsAreSets ==
    DetectionReturned =>
        \A i \in 1..Len(SamplesOf(result)) :
            Cardinality(Range(SamplesOf(result)[i].label)) = Len(SamplesOf(result)[i].label)

EntityReturned == call.method = "generate_entity_detection_data" /\ raised = ""

\* e is category up to its first separator, the whole of it when it has
\* none
IsEntityOf(category, e) ==
    /\ Len(e) <= Len(category)
    /\ e = SubSeq(category, 1, Len(e))
    /\ \A i \in 1..Len(e) : e[i] # "#"
    /\ Len(e) = Len(category) \/ category[Len(e) + 1] = "#"

\* the entries es are the entities of the categories of terms, each of
\* them and nothing else
EntitiesOf(terms, es) ==
    /\ \A e \in es : \E i \in 1..Len(terms) : IsEntityOf(terms[i].category, e)
    /\ \A i \in 1..Len(terms) : \E e \in es : IsEntityOf(terms[i].category, e)

\* C16: in the entity-detection task the label of a sample holds, for each
\* aspect term of its sentence, the term's category up to its first '#',
\* the whole category when it has no '#', and the vocabulary holds the
\* same of the aspect terms of all sentences
C16_EntityBeforeHash ==
    EntityReturned =>
        /\ EntitiesOf(AllTerms(data), Range(categories.items))
        /\ Len(result.test.items) = Len(Sentences(data.test.items))
        /\ \A i \in 1..Len(result.test.items) :
              EntitiesOf(Sentences(data.test.items)[i].aspect_terms,
                         Range(result.test.items[i].label))

\* the categories 'F#F' and 'FF' gave the label entries 'F' and 'FF'
C16_Witness ==
    /\ EntityReturned
    /\ MapSeq(CategoryOf, Sentences(data.test.items)[1].aspect_terms)
          = <<<<"F", "#", "F">>, <<"F", "F">>>>
    /\ result.test.items[1].label = <<<<"F">>, <<"F", "F">>>>
    /\ <<"F", "F">> \in Range(categories.items)

(***************************************************************************)
(* The lines of the test corpus of Nlpcc2012WeiboSa, checked under          *)
(* SpecLoad.                                                                *)
(***************************************************************************)
\* the raw lines of the text file
TestLines == call.input.test.files[1].txt.content

HasMarker(line) == Occurs(RootTextBegin, line)

\* the index of the first line from index from on that holds the marker,
\* one past the last line when there is none
FirstMarker(from) ==
    IF \E i \in from..Len(TestLines) : HasMarker(TestLines[i])
    THEN CHOOSE i \in from..Len(TestLines) :
            /\ HasMarker(TestLines[i])
            /\ \A j \in from..(i - 1) : ~HasMarker(TestLines[j])
    ELSE Len(TestLines) + 1

\* C21: the sentences of a test document are the raw lines after the
\* first line and before the first line of the file that contains
\* 'root_text_begin', all lines after the first when no line contains it;
\* no line at or after the marker becomes a sentence
C21_CutAtFirstMarker ==
    NlpccReturned =>
        MapSeq(TextOf, TestSentences) = SubSeq(TestLines, 2, FirstMarker(1) - 1)

\* C21 as amended: the marker is looked for among the lines after the
\* first; a marker in the first line cuts nothing
C21_CutAtFirstMarkerAfterHeader ==
    NlpccReturned =>
        MapSeq(TextOf, TestSentences) = SubSeq(TestLines, 2, FirstMarker(2) - 1)

\* a file of five lines with the marker inside its fourth line gave the
\* second and third line as sentences
C21_Witness ==
    /\ NlpccReturned
    /\ Len(TestLines) = 5
    /\ ~HasMarker(TestLines[1])
    /\ FirstMarker(2) = 4
    /\ TestLines[4] # RootTextBegin
    /\ MapSeq(TextOf, TestSentences) = <<TestLines[2], TestLines[3]>>

(***************************************************************************)
(* load_csv_data, checked under SpecCsv.                                    *)
(***************************************************************************)
CsvReturned == call.method = "load_csv_data" /\ raised = ""

\* the rows of all lines of the file, as csv.reader parses them
ParsedRows ==
    [i \in 1..Len(call.input.filepath.content) |-> csv_row(call.input.filepath.content[i])]

\* the rows whose column count is not that of the first row
Divergent == {i \in 1..Len(ParsedRows) : Len(ParsedRows[i]) # Len(ParsedRows[1])}

\* C22: load_csv_data returns every parsed row in input order, all rows
\* after the first when skip_first_line is true, whatever the column
\* counts; a row whose column count differs from the first row's is
\* printed and returned as it is
C22_DivergentRowsKept ==
    CsvReturned =>
        /\ result.rows = IF call.input.skip_first_line
                         THEN SubSeq(ParsedRows, 2, Len(ParsedRows)) ELSE ParsedRows
        /\ \A i \in Divergent : \E k \in 1..Len(result.printed) :
              result.printed[k] = ParsedRows[i]
        /\ Len(result.printed) = Cardinality(Divergent)

\* a file whose first line has one column and whose second has two, read
\* with skip_first_line: the row of two columns is returned and printed
C22_Witness ==
    /\ CsvReturned
    /\ call.input.skip_first_line
    /\ call.input.filepath.content = <<<<"a">>, <<"a", ",">>>>
    /\ result.rows = <<<<<<"a">>, <<>>>>>>
    /\ result.printed = <<<<<<"a">>, <<>>>>>>

(***************************************************************************)
(* generate_dev_data on a dict with and without dev, checked under Spec.    *)
(***************************************************************************)
\* C23: generate_dev_data on a dict whose dev entry is not None returns
\* without error and leaves the train, dev and test entries of the dict as
\* they were, for every dev_size and random_state
C23_DevPresentNoChange ==
    (call.method = "generate_dev_data" /\ call.input.dev # None) =>
        /\ raised = ""
        /\ result.train = call.input.train
        /\ result.dev = call.input.dev
        /\ result.test = call.input.test

\* such a call was made with a non-zero dev_size on a dict whose train
\* entry could have been split
C23_Witness ==
    /\ call.method = "generate_dev_data"
    /\ call.input.dev # None
    /\ call.size[1] # 0
    /\ call.input.train # None
    /\ Len(call.input.train.items) >= 2
    /\ result = call.input

Carved ==
    /\ call.method = "generate_dev_data"
    /\ call.input.dev = None
    /\ call.size[1] # 0
    /\ raised = ""

\* C24: when generate_dev_data carves dev out of train, the new train and
\* the new dev together hold every sample of the old train once and
\* nothing else, neither of them is the whole, and test is as it was
C24_CarvePartitionsTrain ==
    Carved =>
        /\ IsPermutation(result.train.items \o result.dev.items, call.input.train.items)
        /\ \A x \in Range(result.train.items) :
              Count(x, call.input.train.items) = 1 => x \notin Range(result.dev.items)
        /\ result.test = call.input.test

\* three different train samples went two to train and one to dev
C24_Witness ==
    /\ Carved
    /\ Len(call.input.train.items) = MaxTrain
    /\ Cardinality(Range(call.input.train.items)) = MaxTrain
    /\ Len(result.train.items) = MaxTrain - 1
    /\ Len(result.dev.items) = 1

(***************************************************************************)
(* The labels of the multi-vote category task, checked under SpecRecon.     *)
(***************************************************************************)
\* where category first occurs among the aspect terms of sentence
FirstOccurrence(sentence, category) ==
    CHOOSE j \in 1..Len(sentence.aspect_terms) :
        /\ sentence.aspect_terms[j].category = category
        /\ \A k \in 1..(j - 1) : sentence.aspect_terms[k].category # category

\* C25: in the multi-vote category task the label of every sample has one
\* (category, polarity) entry for each category among the aspect terms of
\* its sentence and no other entry, the entries stand in the order in
\* which their categories first occur in the sentence, and a sentence
\* without aspect terms gives no sample
C25_OneEntryPerCategory ==
    Acsc2015Returned =>
        \A dt \in Uncarved :
            /\ Len(result[dt].items) = Len(Voted(dt))
            /\ \A i \in 1..Len(Voted(dt)) :
                LET label == result[dt].items[i].label
                IN  /\ Len(label) = Cardinality(TermCategories(Voted(dt)[i]))
                    /\ \A k \in 1..Len(label) : label[k][1] \in TermCategories(Voted(dt)[i])
                    /\ \A k, l \in 1..Len(label) :
                          k < l => FirstOccurrence(Voted(dt)[i], label[k][1])
                                     < FirstOccurrence(Voted(dt)[i], label[l][1])

\* a sentence whose terms have the categories F#Q, A, F#Q got a label of
\* two entries, F#Q before A
C25_Witness ==
    /\ Acsc2015Returned
    /\ Len(Voted("test")) = 2
    /\ MapSeq(CategoryOf, Voted("test")[1].aspect_terms) = <<FoodQuality, Ambience, FoodQuality>>
    /\ Len(result.test.items[1].label) = 2
    /\ result.test.items[1].label[1][1] = FoodQuality
    /\ result.test.items[1].label[2][1] = Ambience

(***************************************************************************)
(* The content of the category-level tasks compared, checked under          *)
(* SpecText.                                                                *)
(***************************************************************************)
CategoryLevelReturned ==
    /\ call.method \in {"generate_acd_and_sc_data", "generate_aspect_category_detection_data"}
    /\ raised = ""

\* C26: the content a category task or a category-detection task gives a
\* sentence is the content Semeval2014Task4Rest.generate_acd_and_sc_data
\* and the category-detection task of Semeval2016Task5Sub1 give the same
\* sentence, whatever carriage returns and newlines its text holds
C26_SameContent ==
    CategoryLevelReturned =>
        /\ TestContent = Acsc2014Sample(data.test.items[1].absa_sentences[1]).content
        /\ TestContent = Sub1DetectionSample(data.test.items[1].absa_sentences[1]).content

(***************************************************************************)
(* The category task on records with absent partitions, checked under       *)
(* SpecAbsent.                                                              *)
(***************************************************************************)
\* the record the adapter returned lacks train, or lacks test while no dev
\* partition is to be carved
AbsentPartition == data.train = None \/ (data.test = None /\ call.size[1] = 0)

\* C27: on every record an adapter returned with the train or the test
\* partition absent, generate_acd_and_sc_data returns without error, and
\* the partition that is absent in the record is absent in the result
C27_CompletesOnAbsent ==
    (call.method = "generate_acd_and_sc_data" /\ AbsentPartition) =>
        /\ raised = ""
        /\ \A dt \in {"train", "test"} : data[dt] = None => result[dt] = None

====
